---- MODULE Spec2Model ----
(***************************************************************************)
(* Text layout engine of the slide editor: greedy line wrapping, the       *)
(* styled-markup layout resolver (getLayoutStyles), the direct PDF         *)
(* renderer (generatePdf) and the markup generators.                       *)
(*                                                                         *)
(* Strings are sequences of one-character strings.  Every length (widths,  *)
(* letter spacing, coordinates) is an integer number of hundredths of a    *)
(* page unit, so that -0.66 and -0.6 are the integers -66 and -60.         *)
(***************************************************************************)
EXTENDS Integers, Sequences, FiniteSets, TLC

\* ------------------------------------------------------------------------
\* Units and characters
\* ------------------------------------------------------------------------

\* v page units (px / pt) in hundredths
Px(v) == v * 100

SP == " "
NL == "\n"
Chars == {"a", "W", "&", "<", ">", "\"", "'", SP, NL}

\* None: the value of a result that has not been computed
None == [none |-> TRUE]

\* n copies of character c
Rep(c, n) == [i \in 1..n |-> c]

\* ------------------------------------------------------------------------
\* String primitives of the runtime, modelled by what they do
\* ------------------------------------------------------------------------

\* String.prototype.split(sep) for a one-character separator:
\* "" gives <<"">>, "a  b" gives <<"a", "", "b">>

\* index of the first sep in s at or after i, Len(s) + 1 when there is none
RECURSIVE indexOf(_, _, _)
indexOf(s, sep, i) ==
  IF i > Len(s) \/ s[i] = sep THEN i ELSE indexOf(s, sep, i + 1)

RECURSIVE splitFrom(_, _, _)
splitFrom(s, sep, i) ==
  LET k == indexOf(s, sep, i)
  IN  IF k > Len(s) THEN <<SubSeq(s, i, Len(s))>>
      ELSE <<SubSeq(s, i, k - 1)>> \o splitFrom(s, sep, k + 1)

split(s, sep) == splitFrom(s, sep, 1)

\* Array.prototype.join(sep) for a one-character separator
RECURSIVE join(_, _)
join(parts, sep) ==
  IF parts = <<>> THEN <<>>
  ELSE IF Len(parts) = 1 THEN parts[1]
  ELSE parts[1] \o <<sep>> \o join(Tail(parts), sep)

IsWhite(c) == c \in {SP, NL}

\* first index at or after i that holds no white space, Len(s) + 1 if none
RECURSIVE skipWhite(_, _)
skipWhite(s, i) ==
  IF i > Len(s) \/ ~IsWhite(s[i]) THEN i ELSE skipWhite(s, i + 1)

\* last index at or before i that holds no white space, 0 if none
RECURSIVE skipWhiteBack(_, _)
skipWhiteBack(s, i) ==
  IF i < 1 \/ ~IsWhite(s[i]) THEN i ELSE skipWhiteBack(s, i - 1)

\* String.prototype.trim(): strips white space at both ends
trim(s) == SubSeq(s, skipWhite(s, 1), skipWhiteBack(s, Len(s)))

\* Array.prototype.filter
RECURSIVE filterNonBlank(_)
filterNonBlank(parts) ==
  IF parts = <<>> THEN <<>>
  ELSE IF trim(parts[1]) # <<>>
         THEN <<parts[1]>> \o filterNonBlank(Tail(parts))
         ELSE filterNonBlank(Tail(parts))

\* bodyParagraphsOf without the split at line breaks
bodyParagraphsUnsplit(bodyText) == filterNonBlank(<<bodyText>>)

\* state.bodyText.split('\n').filter(line => line.trim())
bodyParagraphsOf(bodyText) == filterNonBlank(split(bodyText, NL))

\* flattening of string[][] into string[]
RECURSIVE flatten(_)
flatten(groups) ==
  IF groups = <<>> THEN <<>> ELSE groups[1] \o flatten(Tail(groups))

\* ------------------------------------------------------------------------
\* Widths
\* ------------------------------------------------------------------------

\* sum of the advance widths cw[c] of the characters of s
RECURSIVE sumFrom(_, _, _)
sumFrom(s, cw, i) ==
  IF i > Len(s) THEN 0 ELSE cw[s[i]] + sumFrom(s, cw, i + 1)

sumWidths(s, cw) == sumFrom(s, cw, 1)

ESTIMATED_CHAR_WIDTH_TITLE == 70
ESTIMATED_CHAR_WIDTH_BODY == 13

\* the constant width table used by the markup wrapper
estimatedCharWidth(fontSize) ==
  IF fontSize = 125 THEN Px(ESTIMATED_CHAR_WIDTH_TITLE)
                    ELSE Px(ESTIMATED_CHAR_WIDTH_BODY)

\* The metrics of the embedded fonts are data of the font files, not of the
\* program: the model offers two sets of metrics.  "mono" has exactly the
\* advances the markup wrapper estimates; "prop" is a proportional font.
FontNames == {"mono", "prop"}

glyphAdvance(font, size) ==
  IF font = "mono"
    THEN [c \in Chars |-> estimatedCharWidth(size)]
    ELSE IF size = 125
      THEN [c \in Chars |->
              CASE c = "W" -> 11000 [] c = SP -> 3000 [] c = NL -> 0
                [] OTHER -> 6000]
      ELSE [c \in Chars |->
              CASE c = "W" -> 2000 [] c = SP -> 500 [] c = NL -> 0
                [] OTHER -> 1100]

\* the quantity every wrap loop compares against maxWidth: the sum of the
\* advances (font.widthOfTextAtSize, or length * charWidth in the markup
\* wrapper) plus (length - 1) * letterSpacing
adjustedWidth(line, cw, letterSpacing) ==
  sumWidths(line, cw) + (Len(line) - 1) * letterSpacing

\* ------------------------------------------------------------------------
\* Greedy line wrapper
\* ------------------------------------------------------------------------

\* wrapStep measuring the new word instead of the extended line
wrapStepMeasuresWord(acc, word, maxWidth, cw, letterSpacing) ==
  LET testLine == IF acc.cur # <<>> THEN acc.cur \o <<SP>> \o word ELSE word
      testWidth == adjustedWidth(word, cw, letterSpacing)
  IN  IF testWidth <= maxWidth
        THEN [cur |-> testLine, lines |-> acc.lines]
        ELSE [cur |-> word,
              lines |-> IF acc.cur # <<>> THEN Append(acc.lines, acc.cur)
                                          ELSE acc.lines]

\* one iteration of the loop `for (const word of words)`
\* acc = [cur |-> currentLine, lines |-> lines]
\* the loop body measuring the test line without the letter spacing
wrapStepIgnoresSpacing(acc, word, maxWidth, cw, letterSpacing) ==
  LET testLine == IF acc.cur # <<>> THEN acc.cur \o <<SP>> \o word ELSE word
      testWidth == adjustedWidth(testLine, cw, 0)
  IN  IF testWidth <= maxWidth
        THEN [cur |-> testLine, lines |-> acc.lines]
        ELSE [cur |-> word,
              lines |-> IF acc.cur # <<>> THEN Append(acc.lines, acc.cur)
                                          ELSE acc.lines]

wrapStep(acc, word, maxWidth, cw, letterSpacing) ==
  LET testLine == IF acc.cur # <<>> THEN acc.cur \o <<SP>> \o word ELSE word
      testWidth == adjustedWidth(testLine, cw, letterSpacing)
  IN  IF testWidth <= maxWidth
        THEN [cur |-> testLine, lines |-> acc.lines]
        ELSE [cur |-> word,
              lines |-> IF acc.cur # <<>> THEN Append(acc.lines, acc.cur)
                                          ELSE acc.lines]

RECURSIVE wrapFold(_, _, _, _, _)
wrapFold(acc, words, maxWidth, cw, letterSpacing) ==
  IF words = <<>> THEN acc
  ELSE wrapFold(wrapStep(acc, words[1], maxWidth, cw, letterSpacing),
                Tail(words), maxWidth, cw, letterSpacing)

\* wrapWords without the push after the loop
wrapWordsNoFlush(words, maxWidth, cw, letterSpacing) ==
  wrapFold([cur |-> <<>>, lines |-> <<>>], words, maxWidth, cw,
           letterSpacing).lines

\* wrapWords pushing the last line without testing that it is non-empty
wrapWordsAlwaysFlush(words, maxWidth, cw, letterSpacing) ==
  LET acc == wrapFold([cur |-> <<>>, lines |-> <<>>], words, maxWidth, cw,
                      letterSpacing)
  IN  Append(acc.lines, acc.cur)

\* the whole loop and the final push of a non-empty currentLine
wrapWords(words, maxWidth, cw, letterSpacing) ==
  LET acc == wrapFold([cur |-> <<>>, lines |-> <<>>], words, maxWidth, cw,
                      letterSpacing)
  IN  IF acc.cur # <<>> THEN Append(acc.lines, acc.cur) ELSE acc.lines

\* wrapText of the markup resolver: constant estimated character width
wrapText(text, maxWidth, fontSize, letterSpacing) ==
  wrapWords(split(text, SP), maxWidth,
            [c \in Chars |-> estimatedCharWidth(fontSize)], letterSpacing)

\* the title wrap loop of the PDF layouts: state.title.split(' ')
pdfWrapTitle(font, title, maxWidth, fontSize, letterSpacing) ==
  wrapWords(split(title, SP), maxWidth, glyphAdvance(font, fontSize),
            letterSpacing)

\* the wrap loop of one body paragraph in the PDF layouts:
\* paragraph.trim().split(' ')
pdfWrapParagraph(font, paragraph, maxWidth, fontSize, letterSpacing) ==
  wrapWords(split(trim(paragraph), SP), maxWidth,
            glyphAdvance(font, fontSize), letterSpacing)

\* ------------------------------------------------------------------------
\* Grid and quadrant geometry
\* ------------------------------------------------------------------------

\* getQuadrantBounds with case 4 returning the y of the top row
getQuadrantBoundsRow(quadrant) ==
  LET pageMargin == Px(80)
      quadrantWidth == Px(880)
      quadrantHeight == Px(460)
  IN  [x |-> IF quadrant \in {1, 3} THEN pageMargin
                                    ELSE pageMargin + quadrantWidth,
       y |-> IF quadrant = 3 THEN pageMargin ELSE pageMargin + quadrantHeight,
       width |-> quadrantWidth, height |-> quadrantHeight]

\* getQuadrantBounds: y is the bottom edge, Y = 0 at the bottom of the page
getQuadrantBounds(quadrant) ==
  LET pageMargin == Px(80)
      quadrantWidth == Px(880)
      quadrantHeight == Px(460)
  IN  CASE quadrant = 1 ->
             [x |-> pageMargin, y |-> pageMargin + quadrantHeight,
              width |-> quadrantWidth, height |-> quadrantHeight]
        [] quadrant = 2 ->
             [x |-> pageMargin + quadrantWidth, y |-> pageMargin + quadrantHeight,
              width |-> quadrantWidth, height |-> quadrantHeight]
        [] quadrant = 3 ->
             [x |-> pageMargin, y |-> pageMargin,
              width |-> quadrantWidth, height |-> quadrantHeight]
        [] quadrant = 4 ->
             [x |-> pageMargin + quadrantWidth, y |-> pageMargin,
              width |-> quadrantWidth, height |-> quadrantHeight]

GRID_SIZE == 40

\* Math.round(value / GRID_SIZE) * GRID_SIZE; Math.round rounds halves up
snapToGrid(value) ==
  ((value + Px(GRID_SIZE) \div 2) \div Px(GRID_SIZE)) * Px(GRID_SIZE)

\* ------------------------------------------------------------------------
\* Layout resolver of the styled markup (htmlSlideLayouts)
\* ------------------------------------------------------------------------

\* bodyParagraphs.map(p => wrapText(p, ...))
wrapParagraphs(paragraphs, maxWidth, fontSize, letterSpacing) ==
  [i \in 1..Len(paragraphs) |->
     wrapText(paragraphs[i], maxWidth, fontSize, letterSpacing)]

getDefaultLayoutStyles(state) ==
  LET headerY == Px(80)
      headerX == Px(80)
      titleY == Px(320)
      titleX == Px(72)
      titleMaxWidth == Px(960)
      titleFontSize == 125
      titleLetterSpacing == -500
      bodyBottom == Px(80)
      bodyX == Px(80)
      bodyMaxWidth == Px(960)
      bodyFontSize == 22
      bodyLetterSpacing == -66
  IN  [header |-> [top |-> headerY, left |-> headerX],
       title |-> [top |-> titleY, left |-> titleX, maxWidth |-> titleMaxWidth],
       body |-> [bottom |-> bodyBottom, left |-> bodyX, maxWidth |-> bodyMaxWidth],
       titleLines |-> wrapText(state.title, titleMaxWidth, titleFontSize,
                               titleLetterSpacing),
       bodyLines |-> wrapParagraphs(bodyParagraphsOf(state.bodyText),
                                    bodyMaxWidth, bodyFontSize, bodyLetterSpacing),
       bodyUseBullets |-> FALSE]

getQuadrantLayoutStyles(state) ==
  LET headerY == Px(80)
      headerX == Px(80)
      titleX == Px(72)
      titleMaxWidth == Px(800)
      titleFontSize == 125
      titleLetterSpacing == -500
      titleBottom == Px(460)
      bodyX == Px(960 + 40)
      bodyMaxWidth == Px(800)
      bodyFontSize == 22
      bodyLetterSpacing == -66
      bodyBottom == Px(460)
  IN  [header |-> [top |-> headerY, left |-> headerX],
       title |-> [bottom |-> titleBottom, left |-> titleX,
                  maxWidth |-> titleMaxWidth],
       body |-> [bottom |-> bodyBottom, left |-> bodyX, maxWidth |-> bodyMaxWidth],
       titleLines |-> wrapText(state.title, titleMaxWidth, titleFontSize,
                               titleLetterSpacing),
       bodyLines |-> wrapParagraphs(bodyParagraphsOf(state.bodyText),
                                    bodyMaxWidth, bodyFontSize, bodyLetterSpacing),
       bodyUseBullets |-> FALSE]

getQuadrantTopLayoutStyles(state) ==
  LET headerY == Px(80)
      headerX == Px(80)
      titleX == Px(72)
      titleMaxWidth == Px(800)
      titleFontSize == 125
      titleLetterSpacing == -500
      titleBottom == Px(100)
      bodyX == Px(960 + 40)
      bodyMaxWidth == Px(800)
      bodyFontSize == 22
      bodyLetterSpacing == -66
      bodyBottom == Px(100)
  IN  [header |-> [top |-> headerY, left |-> headerX],
       title |-> [bottom |-> titleBottom, left |-> titleX,
                  maxWidth |-> titleMaxWidth],
       body |-> [bottom |-> bodyBottom, left |-> bodyX, maxWidth |-> bodyMaxWidth],
       titleLines |-> wrapText(state.title, titleMaxWidth, titleFontSize,
                               titleLetterSpacing),
       bodyLines |-> wrapParagraphs(bodyParagraphsOf(state.bodyText),
                                    bodyMaxWidth, bodyFontSize, bodyLetterSpacing),
       bodyUseBullets |-> FALSE]

getCenteredLayoutStyles(state) ==
  LET headerY == Px(80)
      headerX == Px(80)
      titleMaxWidth == Px(960)
      titleFontSize == 125
      titleLetterSpacing == -500
      bodyMaxWidth == Px(960)
      bodyFontSize == 22
      bodyLetterSpacing == -66
      gapHeight == Px(80)
      pageCenterY == Px(540)
      titleBottomFromBottom == pageCenterY
      bodyTopFromTop == pageCenterY + gapHeight
  IN  [header |-> [top |-> headerY, left |-> headerX],
       title |-> [bottom |-> titleBottomFromBottom, left |-> "50%",
                  maxWidth |-> titleMaxWidth],
       body |-> [top |-> bodyTopFromTop, left |-> "50%",
                 maxWidth |-> bodyMaxWidth],
       titleLines |-> wrapText(state.title, titleMaxWidth, titleFontSize,
                               titleLetterSpacing),
       bodyLines |-> wrapParagraphs(bodyParagraphsOf(state.bodyText),
                                    bodyMaxWidth, bodyFontSize, bodyLetterSpacing),
       bodyUseBullets |-> FALSE]

getQuadrantLargeLayoutStyles(state) ==
  LET headerY == Px(80)
      headerX == Px(80)
      titleX == Px(72)
      titleMaxWidth == Px(800)
      titleFontSize == 125
      titleLetterSpacing == -500
      titleBottom == Px(460)
      bodyX == Px(960 + 40)
      bodyMaxWidth == Px(800)
      bodyFontSize == 30
      bodyLetterSpacing == -60
      bodyLineHeight == Px(42)
      bodyBottom == Px(460)
  IN  [header |-> [top |-> headerY, left |-> headerX],
       title |-> [bottom |-> titleBottom, left |-> titleX,
                  maxWidth |-> titleMaxWidth],
       body |-> [bottom |-> bodyBottom, left |-> bodyX, maxWidth |-> bodyMaxWidth],
       titleLines |-> wrapText(state.title, titleMaxWidth, titleFontSize,
                               titleLetterSpacing),
       bodyLines |-> wrapParagraphs(bodyParagraphsOf(state.bodyText),
                                    bodyMaxWidth, bodyFontSize, bodyLetterSpacing),
       bodyUseBullets |-> TRUE,
       bodyLineHeight |-> bodyLineHeight,
       bodyClassName |-> "slide-body-large"]

\* getLayoutStyles without the default branch
getLayoutStylesNoDefault(state) ==
  CASE state.layout = "title" -> getDefaultLayoutStyles(state)
    [] state.layout = "quadrant-1-2" -> getQuadrantLayoutStyles(state)
    [] state.layout = "quadrant-1-2-top" -> getQuadrantTopLayoutStyles(state)
    [] state.layout = "centered" -> getCenteredLayoutStyles(state)
    [] state.layout = "quadrant-1-2-large" -> getQuadrantLargeLayoutStyles(state)
    [] OTHER -> None

\* the switch over state.layout with its default branch
getLayoutStyles(state) ==
  CASE state.layout = "title" -> getDefaultLayoutStyles(state)
    [] state.layout = "quadrant-1-2" -> getQuadrantLayoutStyles(state)
    [] state.layout = "quadrant-1-2-top" -> getQuadrantTopLayoutStyles(state)
    [] state.layout = "centered" -> getCenteredLayoutStyles(state)
    [] state.layout = "quadrant-1-2-large" -> getQuadrantLargeLayoutStyles(state)
    [] OTHER -> getDefaultLayoutStyles(state)

\* ------------------------------------------------------------------------
\* Direct PDF renderer (generatePdf): what each layout function draws
\* ------------------------------------------------------------------------

\* the paragraph loop that fills allWrappedLines
pdfWrapBody(font, bodyText, maxWidth, fontSize, letterSpacing) ==
  LET bodyParagraphs == bodyParagraphsOf(bodyText)
  IN  flatten([i \in 1..Len(bodyParagraphs) |->
                 pdfWrapParagraph(font, bodyParagraphs[i], maxWidth, fontSize,
                                  letterSpacing)])

\* pdfHeader with y measured from the top as in the markup
pdfHeaderTopDown(state) ==
  [text |-> state.header, x |-> snapToGrid(Px(80)),
   y |-> snapToGrid(Px(80)), size |-> 16]

\* page.drawText(state.header, {x, y, size: 16}): one run, no maxWidth
pdfHeader(state) ==
  [text |-> state.header, x |-> snapToGrid(Px(80)),
   y |-> snapToGrid(Px(1080 - 80)), size |-> 16]

\* start x of a centred line: (1920 - lineWidth) / 2, halves of a hundredth
\* dropped
centeredLineX(line, cw, letterSpacing) ==
  (Px(1920) - adjustedWidth(line, cw, letterSpacing)) \div 2

\* the inner draw loop: the character at index j is drawn at currentX, then
\* currentX += charWidth + letterSpacing
RECURSIVE drawGlyphs(_, _, _, _, _)
drawGlyphs(line, j, currentX, cw, letterSpacing) ==
  IF j > Len(line) THEN <<>>
  ELSE <<[char |-> line[j], x |-> currentX]>>
         \o drawGlyphs(line, j + 1, currentX + cw[line[j]] + letterSpacing,
                       cw, letterSpacing)

\* drawLine that advances by the character width alone
drawLineNoSpacing(line, startX, cw, letterSpacing) ==
  drawGlyphs(line, 1, startX, cw, 0)

\* one line drawn character by character, let currentX = the line's start x
drawLine(line, startX, cw, letterSpacing) ==
  drawGlyphs(line, 1, startX, cw, letterSpacing)

\* the lines of a block drawn with their start x
drawLines(lines, lineX, cw, letterSpacing) ==
  [i \in 1..Len(lines) |-> drawLine(lines[i], lineX[i], cw, letterSpacing)]

\* bodyLineYFromBottom with the first line at the margin
bodyLineYFromTop(n, i, bodyMarginBottom, bodyLineHeight) ==
  bodyMarginBottom + (i - 1) * bodyLineHeight

\* the y of line i of n in the body loop of the default layout: the loop runs
\* from the last line to the first, currentY starts at the bottom margin and
\* grows by the line height after each line
bodyLineYFromBottom(n, i, bodyMarginBottom, bodyLineHeight) ==
  bodyMarginBottom + (n - i) * bodyLineHeight

generateDefaultLayout(state, font) ==
  LET titleY == snapToGrid(Px(1080 - 320))
      titleX == snapToGrid(Px(80)) - Px(8)
      titleMaxWidth == Px(960)
      titleFontSize == 125
      titleLineHeight == Px(125)
      letterSpacing == -500
      titleLines == pdfWrapTitle(font, state.title, titleMaxWidth,
                                 titleFontSize, letterSpacing)
      bodyFontSize == 22
      bodyLineHeight == Px(27)
      bodyLetterSpacing == -66
      bodyMaxWidth == Px(960)
      bodyMarginBottom == snapToGrid(Px(80))
      bodyX == snapToGrid(Px(80))
      allWrappedLines == pdfWrapBody(font, state.bodyText, bodyMaxWidth,
                                     bodyFontSize, bodyLetterSpacing)
      n == Len(allWrappedLines)
  IN  [layoutFn |-> "default",
       header |-> pdfHeader(state),
       titleLines |-> titleLines,
       titleLineX |-> [i \in 1..Len(titleLines) |-> titleX],
       titleLineY |-> [i \in 1..Len(titleLines) |->
                         titleY - (i - 1) * titleLineHeight],
       titleGlyphs |-> drawLines(titleLines,
                                 [i \in 1..Len(titleLines) |-> titleX],
                                 glyphAdvance(font, titleFontSize), letterSpacing),
       bodyLines |-> allWrappedLines,
       bodyLineX |-> [i \in 1..n |-> bodyX],
       bodyGlyphs |-> drawLines(allWrappedLines, [i \in 1..n |-> bodyX],
                                glyphAdvance(font, bodyFontSize),
                                bodyLetterSpacing),
       bodyLineY |-> [i \in 1..n |->
                        bodyLineYFromBottom(n, i, bodyMarginBottom,
                                            bodyLineHeight)]]

\* generateQuadrantLayout and generateQuadrantTopLayout differ only in the
\* quadrants they read
quadrantPage(state, font, name, titleQuadrant, bodyQuadrant) ==
  LET titleQ == getQuadrantBounds(titleQuadrant)
      titleFontSize == 125
      titleLineHeight == Px(125)
      titleLetterSpacing == -500
      titleMaxWidth == Px(800)
      titleX == snapToGrid(Px(80)) - Px(8)
      titleBottomY == titleQ.y
      titleLines == pdfWrapTitle(font, state.title, titleMaxWidth,
                                 titleFontSize, titleLetterSpacing)
      t == Len(titleLines)
      bodyQ == getQuadrantBounds(bodyQuadrant)
      bodyFontSize == 22
      bodyLineHeight == Px(27)
      bodyLetterSpacing == -66
      bodyMaxWidth == Px(800)
      bodyX == bodyQ.x + Px(40)
      bodyBottomY == bodyQ.y
      allWrappedLines == pdfWrapBody(font, state.bodyText, bodyMaxWidth,
                                     bodyFontSize, bodyLetterSpacing)
      n == Len(allWrappedLines)
  IN  [layoutFn |-> name,
       titleQuadrant |-> titleQ,
       bodyQuadrant |-> bodyQ,
       header |-> pdfHeader(state),
       titleLines |-> titleLines,
       titleLineX |-> [i \in 1..t |-> titleX],
       titleLineY |-> [i \in 1..t |-> titleBottomY + (t - i) * titleLineHeight],
       titleGlyphs |-> drawLines(titleLines, [i \in 1..t |-> titleX],
                                 glyphAdvance(font, titleFontSize),
                                 titleLetterSpacing),
       bodyLines |-> allWrappedLines,
       bodyLineX |-> [i \in 1..n |-> bodyX],
       bodyGlyphs |-> drawLines(allWrappedLines, [i \in 1..n |-> bodyX],
                                glyphAdvance(font, bodyFontSize),
                                bodyLetterSpacing),
       bodyLineY |-> [i \in 1..n |-> bodyBottomY + (n - i) * bodyLineHeight]]

generateQuadrantLayout(state, font) == quadrantPage(state, font, "quadrant", 3, 4)

generateQuadrantTopLayout(state, font) ==
  quadrantPage(state, font, "quadrant-top", 1, 2)

generateCenteredLayout(state, font) ==
  LET titleFontSize == 125
      titleLineHeight == Px(125)
      titleLetterSpacing == -500
      titleMaxWidth == Px(960)
      titleLines == pdfWrapTitle(font, state.title, titleMaxWidth,
                                 titleFontSize, titleLetterSpacing)
      t == Len(titleLines)
      bodyFontSize == 22
      bodyLineHeight == Px(27)
      bodyLetterSpacing == -66
      bodyMaxWidth == Px(960)
      allWrappedLines == pdfWrapBody(font, state.bodyText, bodyMaxWidth,
                                     bodyFontSize, bodyLetterSpacing)
      n == Len(allWrappedLines)
      titleHeight == t * titleLineHeight
      bodyHeight == n * bodyLineHeight
      gapHeight == Px(80)
      totalContentHeight == titleHeight + gapHeight + bodyHeight
      pageCenterY == Px(540)
      titleBottomY == pageCenterY + (totalContentHeight \div 2) - titleHeight
      bodyStartY == titleBottomY - gapHeight
      titleLineX == [i \in 1..t |->
                       centeredLineX(titleLines[i],
                                     glyphAdvance(font, titleFontSize),
                                     titleLetterSpacing)]
      bodyLineX == [i \in 1..n |->
                      centeredLineX(allWrappedLines[i],
                                    glyphAdvance(font, bodyFontSize),
                                    bodyLetterSpacing)]
  IN  [layoutFn |-> "centered",
       header |-> pdfHeader(state),
       titleLines |-> titleLines,
       titleLineX |-> titleLineX,
       titleLineY |-> [i \in 1..t |-> titleBottomY + (t - i) * titleLineHeight],
       titleGlyphs |-> drawLines(titleLines, titleLineX,
                                 glyphAdvance(font, titleFontSize),
                                 titleLetterSpacing),
       bodyLines |-> allWrappedLines,
       bodyLineX |-> bodyLineX,
       bodyGlyphs |-> drawLines(allWrappedLines, bodyLineX,
                                glyphAdvance(font, bodyFontSize),
                                bodyLetterSpacing),
       bodyLineY |-> [i \in 1..n |-> bodyStartY - (i - 1) * bodyLineHeight]]

\* the if / else-if chain of generatePdf and generateMultiPagePdf
pdfLayoutOf(state, font) ==
  IF state.layout = "quadrant-1-2" THEN generateQuadrantLayout(state, font)
  ELSE IF state.layout = "quadrant-1-2-top"
    THEN generateQuadrantTopLayout(state, font)
  ELSE IF state.layout = "centered" THEN generateCenteredLayout(state, font)
  ELSE generateDefaultLayout(state, font)

\* ------------------------------------------------------------------------
\* Markup generators
\* ------------------------------------------------------------------------

\* escapeChar without the replacement of "&"
escapeCharNoAmp(c) ==
  CASE c = "<" -> <<"&", "l", "t", ";">>
    [] c = ">" -> <<"&", "g", "t", ";">>
    [] c = "\"" -> <<"&", "q", "u", "o", "t", ";">>
    [] c = "'" -> <<"&", "#", "0", "3", "9", ";">>
    [] OTHER -> <<c>>

escapeChar(c) ==
  CASE c = "&" -> <<"&", "a", "m", "p", ";">>
    [] c = "<" -> <<"&", "l", "t", ";">>
    [] c = ">" -> <<"&", "g", "t", ";">>
    [] c = "\"" -> <<"&", "q", "u", "o", "t", ";">>
    [] c = "'" -> <<"&", "#", "0", "3", "9", ";">>
    [] OTHER -> <<c>>

\* the five chained replace calls; "&" is replaced first, so the "&" the
\* later replacements insert is not escaped again
RECURSIVE escapeHtml(_)
escapeHtml(text) ==
  IF text = <<>> THEN <<>> ELSE escapeChar(text[1]) \o escapeHtml(Tail(text))

escapeAll(lines) == [i \in 1..Len(lines) |-> escapeHtml(lines[i])]

\* the elements generateSlideHtml emits inside .slide-content
generateSlideHtml(slide) ==
  LET layoutStyles == getLayoutStyles(slide)
      paragraphs == bodyParagraphsOf(slide.bodyText)
  IN  [headerStyle |-> layoutStyles.header,
       header |-> escapeHtml(slide.header),
       titleStyle |-> layoutStyles.title,
       titleDivs |-> escapeAll(layoutStyles.titleLines),
       bodyStyle |-> layoutStyles.body,
       bodyTag |-> IF layoutStyles.bodyUseBullets THEN "ul" ELSE "div",
       listItems |-> IF layoutStyles.bodyUseBullets THEN escapeAll(paragraphs)
                                                    ELSE <<>>,
       bodyDivs |-> IF layoutStyles.bodyUseBullets THEN <<>>
                    ELSE [p \in 1..Len(layoutStyles.bodyLines) |->
                            escapeAll(layoutStyles.bodyLines[p])]]

\* slides.map(slide => ...): the same elements per slide, one .slide-page
\* each
generateMultiSlideHtml(slides) ==
  [i \in 1..Len(slides) |-> generateSlideHtml(slides[i])]

\* previewReadOnly with one bullet image per wrapped line
previewReadOnlyBulletPerLine(slide) ==
  LET layoutStyles == getLayoutStyles(slide)
  IN  [headerStyle |-> layoutStyles.header,
       header |-> slide.header,
       titleStyle |-> layoutStyles.title,
       titleDivs |-> layoutStyles.titleLines,
       bodyStyle |-> layoutStyles.body,
       bulletImages |-> IF layoutStyles.bodyUseBullets
                          THEN Len(flatten(layoutStyles.bodyLines)) ELSE 0,
       bodyGroups |-> layoutStyles.bodyLines]

\* the read-only branch of HtmlSlidePreview: one bullet image per entry of
\* bodyLines when bodyUseBullets is set
previewReadOnly(slide) ==
  LET layoutStyles == getLayoutStyles(slide)
  IN  [headerStyle |-> layoutStyles.header,
       header |-> slide.header,
       titleStyle |-> layoutStyles.title,
       titleDivs |-> layoutStyles.titleLines,
       bodyStyle |-> layoutStyles.body,
       bulletImages |-> IF layoutStyles.bodyUseBullets
                          THEN Len(layoutStyles.bodyLines) ELSE 0,
       bodyGroups |-> layoutStyles.bodyLines]

\* ------------------------------------------------------------------------
\* Inputs
\* ------------------------------------------------------------------------

MaxTitleWords == 2
MaxParas == 2
MaxWords == 3
LongTitleWords == 5

\* all sequences of 1..n elements of S
SeqsUpTo(S, n) == UNION {[1..k -> S] : k \in 1..n}

\* title words
TitleVocab == {Rep("a", 6), Rep("a", 7)}

\* titles that are empty or blank or hold a leading, trailing or doubled
\* space or a line break
EdgeTitles ==
  {<<>>, <<SP>>, <<SP, SP>>, <<NL>>, Rep("a", 6) \o <<SP>>, <<SP>> \o Rep("a", 6),
   Rep("a", 6) \o <<SP, SP>> \o Rep("a", 7)}

\* a title of LongTitleWords words of seven characters, no two of which fit
\* one line at the estimated widths; it holds characters of markup
LongTitle == join([i \in 1..LongTitleWords |-> Rep("a", 5) \o <<"<", "&">>], SP)

Titles ==
  {join(ws, SP) : ws \in SeqsUpTo(TitleVocab, MaxTitleWords)} \cup EdgeTitles
    \cup {LongTitle}

\* body paragraphs: a blank one, one that wraps at either body width and
\* ends in a space, one that wraps at 800 only
ParaVocab ==
  {<<SP>>, Rep("a", 39) \o <<"&", SP, ">">> \o Rep("a", 39) \o <<SP>>,
   Rep("a", 35) \o <<SP>> \o Rep("a", 35)}

Bodies == {join(ps, NL) : ps \in SeqsUpTo(ParaVocab, MaxParas)} \cup {<<>>}

Headers == {<<>>, <<"a", "&", "W", "<", ">", "\"", "'">>}

\* the values of LayoutType the dispatchers know and one they have no branch
\* for ('avdelare')
Layouts ==
  {"title", "quadrant-1-2", "quadrant-1-2-top", "centered",
   "quadrant-1-2-large", "avdelare"}

Slides ==
  [header : Headers, title : Titles, bodyText : Bodies, layout : Layouts]

MaxDeck == 2

\* the slides of a deck: every layout, a title of one line and one of two
\* lines at the estimated widths, a body of two paragraphs; each text holds
\* characters of markup
DeckTitles == {Rep("a", 6), Rep("a", 5) \o <<"<", "&", SP>> \o Rep("a", 5) \o <<">", "'">>}

DeckBody == <<"a", "&", SP, ">", "a", NL, "a", "\"", "'", "<">>

DeckSlides ==
  [header : Headers \ {<<>>}, title : DeckTitles, bodyText : {DeckBody},
   layout : Layouts]

Decks == {<<>>} \cup SeqsUpTo(DeckSlides, MaxDeck)

\* inputs of the wrapper on its own
WordVocab ==
  {<<>>, <<NL>>, Rep("a", 6), Rep("a", 7), Rep("W", 7), Rep("a", 15),
   Rep("a", 17)}

WrapTexts == {join(ws, SP) : ws \in SeqsUpTo(WordVocab, MaxWords)}

WrapWidths == {Px(100), Px(800), Px(960)}

\* (fontSize, letterSpacing) of the call sites
WrapStyles ==
  {[fontSize |-> 125, letterSpacing |-> -500],
   [fontSize |-> 22, letterSpacing |-> -66],
   [fontSize |-> 30, letterSpacing |-> -60]}

\* ------------------------------------------------------------------------
\* State
\* ------------------------------------------------------------------------

VARIABLES
  slide,   \* the SlideState handed to the renderers
  out,     \* the result of the last renderer call, None before the first
  wIn,     \* text and maxWidth handed to the wrapper
  wOut,    \* the result of the last wrapper call, None before the first
  deck,    \* the slides array handed to the multi-slide operations
  pdf,     \* the run of generatePdf / generateMultiPagePdf in progress
  req,     \* the request a server route is working on
  ed       \* the state of the editor page (Home)

vars == <<slide, out, wIn, wOut, deck, pdf, req, ed>>

\* ------------------------------------------------------------------------
\* Renderer calls on one slide.  The renderers are functions of the slide:
\* a behaviour is one call, on a slide drawn by Init.
\* ------------------------------------------------------------------------

Init ==
  /\ slide \in Slides
  /\ out = None
  /\ wIn = None
  /\ wOut = None
  /\ deck = None
  /\ pdf = None
  /\ req = None
  /\ ed = None

\* getLayoutStyles(slide)
ResolveStyles ==
  /\ out = None
  /\ out' = [op |-> "styles", res |-> getLayoutStyles(slide)]
  /\ UNCHANGED <<slide, wIn, wOut, deck, pdf, req, ed>>

\* generatePdf(slide): the three fonts are fetched and embedded, then the
\* layout function chosen by slide.layout draws the page; a failed fetch or
\* embedding rejects the call
GeneratePdf ==
  /\ out = None
  /\ \E fontsLoaded \in BOOLEAN, font \in FontNames :
       out' = IF fontsLoaded
                THEN [op |-> "pdf", font |-> font, res |-> pdfLayoutOf(slide, font)]
                ELSE [op |-> "pdf", font |-> "none", res |-> [error |-> TRUE]]
  /\ UNCHANGED <<slide, wIn, wOut, deck, pdf, req, ed>>

\* generateSlideHtml(slide)
ExportHtml ==
  /\ out = None
  /\ out' = [op |-> "html", res |-> generateSlideHtml(slide)]
  /\ UNCHANGED <<slide, wIn, wOut, deck, pdf, req, ed>>

\* HtmlSlidePreview rendered read-only
Preview ==
  /\ out = None
  /\ out' = [op |-> "preview", res |-> previewReadOnly(slide)]
  /\ UNCHANGED <<slide, wIn, wOut, deck, pdf, req, ed>>

Next == ResolveStyles \/ GeneratePdf \/ ExportHtml \/ Preview

Spec == Init /\ [][Next]_vars

\* ------------------------------------------------------------------------
\* The wrapper on its own
\* ------------------------------------------------------------------------

InitWrap ==
  /\ wIn \in [text : WrapTexts, maxWidth : WrapWidths]
  /\ wOut = None
  /\ slide = None
  /\ out = None
  /\ deck = None
  /\ pdf = None
  /\ req = None
  /\ ed = None

\* wrapText(text, maxWidth, fontSize, letterSpacing)
CallWrapText ==
  /\ wOut = None
  /\ \E st \in WrapStyles :
       wOut' = [op |-> "wrapText", cw |-> [c \in Chars |-> estimatedCharWidth(st.fontSize)],
                letterSpacing |-> st.letterSpacing,
                lines |-> wrapText(wIn.text, wIn.maxWidth, st.fontSize,
                                   st.letterSpacing)]
  /\ UNCHANGED <<slide, out, wIn, deck, pdf, req, ed>>

\* a title wrap loop of the PDF renderer: bold font at 125, spacing -5
CallPdfWrapTitle ==
  /\ wOut = None
  /\ \E font \in FontNames :
       wOut' = [op |-> "pdfTitle", cw |-> glyphAdvance(font, 125),
                letterSpacing |-> -500,
                lines |-> pdfWrapTitle(font, wIn.text, wIn.maxWidth, 125, -500)]
  /\ UNCHANGED <<slide, out, wIn, deck, pdf, req, ed>>

\* a body wrap loop of the PDF renderer on one paragraph: a paragraph has no
\* line break and is not blank
CallPdfWrapParagraph ==
  /\ wOut = None
  /\ bodyParagraphsOf(wIn.text) = <<wIn.text>>
  /\ \E font \in FontNames :
       wOut' = [op |-> "pdfParagraph", cw |-> glyphAdvance(font, 22),
                letterSpacing |-> -66,
                lines |-> pdfWrapParagraph(font, wIn.text, wIn.maxWidth, 22, -66)]
  /\ UNCHANGED <<slide, out, wIn, deck, pdf, req, ed>>

NextWrap == CallWrapText \/ CallPdfWrapTitle \/ CallPdfWrapParagraph

SpecWrap == InitWrap /\ [][NextWrap]_vars

\* ------------------------------------------------------------------------
\* Operations on a deck: the two PDF generators step by step (each await is
\* a step), the multi-slide markup, the export route
\* ------------------------------------------------------------------------

\* MartianMono-Regular, TT Norms Regular, TT Norms Bold
FontFiles == 1..3

\* a fetch resolves with an ok response, resolves with an error status, or
\* rejects
FetchOutcomes == {"ok", "notOk", "rejected"}

\* the status check without the throw
responsesUnchecked(responses) == TRUE

\* !martianMonoResponse.ok || !ttNormsRegularResponse.ok ||
\* !ttNormsBoldResponse.ok throws
responsesOk(responses) == \A f \in FontFiles : responses[f] = "ok"

\* the layout starting once the first font is embedded
fontsEmbeddedAfterFirst(embedded) == embedded >= 1

\* the three embedFont calls are awaited one after the other; the dispatch
\* follows the third
fontsEmbedded(embedded) == embedded = 3

\* a run that has thrown: the catch block logs and rethrows
rejectedAt(run, step) ==
  [run EXCEPT !.pc = "done", !.result = "rejected", !.failed = step]

newRun(fn, font, pageCount) ==
  [fn |-> fn, pc |-> "fetch", responses |-> [f \in FontFiles |-> "pending"],
   embedded |-> 0, font |-> font, pageCount |-> pageCount, pages |-> <<>>,
   next |-> 1, failed |-> "none", result |-> "none"]

InitDeck ==
  /\ deck \in Decks
  /\ pdf = None
  /\ req = None
  /\ ed = None
  /\ out = None
  /\ slide = None
  /\ wIn = None
  /\ wOut = None

\* generatePdf(state): the document is created and its one page added, then
\* the three fetches are started
StartGeneratePdf ==
  /\ pdf = None /\ out = None /\ req = None
  /\ Len(deck) = 1
  /\ \E font \in FontNames : pdf' = newRun("generatePdf", font, 1)
  /\ UNCHANGED <<slide, out, wIn, wOut, deck, req, ed>>

\* generateMultiPagePdf(slides): the document is created, then the three
\* fetches are started
StartGenerateMultiPagePdf ==
  /\ pdf = None /\ out = None /\ req = None
  /\ \E font \in FontNames : pdf' = newRun("generateMultiPagePdf", font, 0)
  /\ UNCHANGED <<slide, out, wIn, wOut, deck, req, ed>>

\* one of the fetches under Promise.all settles; a rejection rejects
\* Promise.all at once
FetchSettles ==
  /\ pdf # None /\ pdf.pc = "fetch"
  /\ \E f \in FontFiles, o \in FetchOutcomes :
       /\ pdf.responses[f] = "pending"
       /\ LET responses == [pdf.responses EXCEPT ![f] = o]
              settled == [pdf EXCEPT !.responses = responses]
          IN  pdf' = IF o = "rejected" THEN rejectedAt(settled, "fetch")
                     ELSE IF \A g \in FontFiles : responses[g] # "pending"
                       THEN [settled EXCEPT !.pc = "check"]
                     ELSE settled
  /\ UNCHANGED <<slide, out, wIn, wOut, deck, req, ed>>

\* the check of the three response statuses
CheckResponses ==
  /\ pdf # None /\ pdf.pc = "check"
  /\ pdf' = IF responsesOk(pdf.responses) THEN [pdf EXCEPT !.pc = "bytes"]
                                          ELSE rejectedAt(pdf, "status")
  /\ UNCHANGED <<slide, out, wIn, wOut, deck, req, ed>>

\* the three arrayBuffer() reads
ReadFontBytes ==
  /\ pdf # None /\ pdf.pc = "bytes"
  /\ \E ok \in BOOLEAN :
       pdf' = IF ok THEN [pdf EXCEPT !.pc = "embed"] ELSE rejectedAt(pdf, "bytes")
  /\ UNCHANGED <<slide, out, wIn, wOut, deck, req, ed>>

\* await pdfDoc.embedFont(...), once per font
EmbedFont ==
  /\ pdf # None /\ pdf.pc = "embed"
  /\ \E ok \in BOOLEAN :
       pdf' = IF ok
                THEN [pdf EXCEPT !.embedded = @ + 1,
                                 !.pc = IF fontsEmbedded(pdf.embedded + 1)
                                          THEN "layout" ELSE "embed"]
                ELSE rejectedAt(pdf, "embed")
  /\ UNCHANGED <<slide, out, wIn, wOut, deck, req, ed>>

\* the page slide k of a run is drawn on, always the first page
drawnPageFirst(run) == 1

\* the page handed to the layout function: the one added last
drawnPage(run) == run.pageCount

\* const page = pdfDoc.addPage([1920, 1080]) at the head of the loop body of
\* generateMultiPagePdf
AddPage ==
  /\ pdf # None /\ pdf.pc = "layout"
  /\ pdf.fn = "generateMultiPagePdf"
  /\ pdf.next <= Len(deck)
  /\ pdf.pageCount = Len(pdf.pages)
  /\ pdf' = [pdf EXCEPT !.pageCount = @ + 1]
  /\ UNCHANGED <<slide, out, wIn, wOut, deck, req, ed>>

\* the awaited layout function of the next slide measures, wraps and draws
\* on the page it is handed
LayoutPage ==
  /\ pdf # None /\ pdf.pc = "layout"
  /\ pdf.next <= Len(deck)
  /\ pdf.pageCount = Len(pdf.pages) + 1
  /\ pdf' = [pdf EXCEPT
               !.pages = Append(@, [page |-> drawnPage(pdf),
                                    slide |-> pdf.next,
                                    drawn |-> pdfLayoutOf(deck[pdf.next], pdf.font),
                                    fontsEmbedded |-> pdf.embedded]),
               !.next = @ + 1]
  /\ UNCHANGED <<slide, out, wIn, wOut, deck, req, ed>>

\* pdfDoc.save() after the last page
SavePdf ==
  /\ pdf # None /\ pdf.pc = "layout"
  /\ pdf.next > Len(deck)
  /\ pdf' = [pdf EXCEPT !.pc = "done", !.result = "bytes"]
  /\ UNCHANGED <<slide, out, wIn, wOut, deck, req, ed>>

\* generateMultiSlideHtml(slides)
GenerateMultiSlideHtml ==
  /\ pdf = None /\ out = None /\ req = None
  /\ out' = [op |-> "multihtml", res |-> generateMultiSlideHtml(deck)]
  /\ UNCHANGED <<slide, wIn, wOut, deck, pdf, req, ed>>

\* generateSlideHtml on one slide of the deck
GenerateSlideHtml ==
  /\ pdf = None /\ out = None /\ req = None
  /\ \E i \in 1..Len(deck) :
       out' = [op |-> "html", index |-> i, res |-> generateSlideHtml(deck[i])]
  /\ UNCHANGED <<slide, wIn, wOut, deck, pdf, req, ed>>

\* the defaults the export route fills in
validateSlide(s) ==
  [header |-> s.header, title |-> s.title, bodyText |-> s.bodyText,
   layout |-> IF s.layout = "" THEN "title" ELSE s.layout, useBullets |-> FALSE]

\* what the headless browser prints of one slide page: every div of the
\* title and of the body is a block of its own, so each starts a line
printedPage(page) ==
  [titleBlocks |-> page.titleDivs,
   bodyBlocks |-> IF page.bodyTag = "ul"
                    THEN [i \in 1..Len(page.listItems) |-> <<page.listItems[i]>>]
                    ELSE page.bodyDivs]

\* what the request body holds under the key slides
BodyKinds == {"missing", "notArray", "array"}

\* the steps of the inner try block that await the browser
BrowserSteps == <<"newPage", "setViewport", "setContent", "emulateMediaType", "pdf">>

\* the catch block that leaves the browser as it is
closeSkipped(browser) == browser

\* await browser.close()
closeBrowser(browser) == "closed"

\* POST /api/export-pdf up to the launch of the browser: 400 for a missing,
\* non-array or empty slides list, else the slides are completed with
\* defaults and the markup of all slides is generated
PostExportPdf ==
  /\ pdf = None /\ out = None /\ req = None
  /\ \E slides \in BodyKinds :
       IF slides # "array" \/ Len(deck) = 0
         THEN /\ req' = [route |-> "export", slides |-> slides, pc |-> "done",
                         browser |-> "none", html |-> <<>>, step |-> 0,
                         pdfBuffer |-> <<>>]
              /\ out' = [op |-> "export", status |-> 400]
         ELSE LET validatedSlides == [i \in 1..Len(deck) |-> validateSlide(deck[i])]
              IN  /\ req' = [route |-> "export", slides |-> slides,
                             pc |-> "launch", browser |-> "none",
                             html |-> generateMultiSlideHtml(validatedSlides),
                             step |-> 0, pdfBuffer |-> <<>>]
                  /\ out' = out
  /\ UNCHANGED <<slide, wIn, wOut, deck, pdf, ed>>

\* the response of the outer catch block
exportFailed == [op |-> "export", status |-> 500]

\* const browser = await puppeteer.launch(...): a rejection is caught by the
\* outer catch block
LaunchBrowser ==
  /\ req # None /\ req.route = "export" /\ req.pc = "launch"
  /\ \E ok \in BOOLEAN :
       IF ok
         THEN /\ req' = [req EXCEPT !.browser = "open", !.pc = "page", !.step = 1]
              /\ out' = out
         ELSE /\ req' = [req EXCEPT !.pc = "done"]
              /\ out' = exportFailed
  /\ UNCHANGED <<slide, wIn, wOut, deck, pdf, ed>>

\* one awaited call of the inner try block; page.pdf prints the whole markup
\* into one buffer; a rejection (a timeout too) goes to the inner catch block
BrowserStep ==
  /\ req # None /\ req.route = "export" /\ req.pc = "page"
  /\ \E ok \in BOOLEAN :
       req' = IF ~ok THEN [req EXCEPT !.pc = "catch"]
              ELSE IF BrowserSteps[req.step] = "pdf"
                THEN [req EXCEPT !.pc = "close",
                        !.pdfBuffer = [i \in 1..Len(req.html) |->
                                         printedPage(req.html[i])]]
              ELSE [req EXCEPT !.step = @ + 1]
  /\ UNCHANGED <<slide, out, wIn, wOut, deck, pdf, ed>>

\* await browser.close() and the PDF response
CloseAndRespond ==
  /\ req # None /\ req.route = "export" /\ req.pc = "close"
  /\ req' = [req EXCEPT !.browser = closeBrowser(@), !.pc = "done"]
  /\ out' = [op |-> "export", status |-> 200, pages |-> req.pdfBuffer]
  /\ UNCHANGED <<slide, wIn, wOut, deck, pdf, ed>>

\* the inner catch block closes the browser and rethrows to the outer catch
CatchAndClose ==
  /\ req # None /\ req.route = "export" /\ req.pc = "catch"
  /\ req' = [req EXCEPT !.browser = closeBrowser(@), !.pc = "done"]
  /\ out' = exportFailed
  /\ UNCHANGED <<slide, wIn, wOut, deck, pdf, ed>>

NextDeck ==
  \/ StartGeneratePdf
  \/ StartGenerateMultiPagePdf
  \/ FetchSettles
  \/ CheckResponses
  \/ ReadFontBytes
  \/ EmbedFont
  \/ AddPage
  \/ LayoutPage
  \/ SavePdf
  \/ GenerateMultiSlideHtml
  \/ GenerateSlideHtml
  \/ PostExportPdf
  \/ LaunchBrowser
  \/ BrowserStep
  \/ CloseAndRespond
  \/ CatchAndClose

SpecDeck == InitDeck /\ [][NextDeck]_vars

\* ------------------------------------------------------------------------
\* Properties of the wrapper (checked under SpecWrap)
\* ------------------------------------------------------------------------

HasSpace(line) == \E j \in 1..Len(line) : line[j] = SP

\* C1: every line a wrap loop returns (wrapText of the markup and the title
\* and paragraph loops of the PDF renderer) has adjusted width
\* sum(charWidth) + (len - 1) * letterSpacing at most maxWidth, except a line
\* that is one single word which by itself is wider than maxWidth
WidthBound ==
  wOut # None =>
    \A i \in 1..Len(wOut.lines) :
      LET line == wOut.lines[i]
          w == adjustedWidth(line, wOut.cw, wOut.letterSpacing)
      IN  w <= wIn.maxWidth \/ (~HasSpace(line) /\ w > wIn.maxWidth)

\* a wrapped result with a line of several words that fits and a single word
\* that overflows
WidthBoundWitness ==
  /\ wOut # None
  /\ \E i \in 1..Len(wOut.lines) :
       /\ HasSpace(wOut.lines[i])
       /\ adjustedWidth(wOut.lines[i], wOut.cw, wOut.letterSpacing) <= wIn.maxWidth
  /\ \E i \in 1..Len(wOut.lines) :
       adjustedWidth(wOut.lines[i], wOut.cw, wOut.letterSpacing) > wIn.maxWidth

\* the words of the text are non-empty and separated by single spaces
SingleSpaced(text) ==
  text = <<>> \/ \A k \in 1..Len(split(text, SP)) : split(text, SP)[k] # <<>>

\* C8: for a text whose words are separated by single spaces no word is
\* split, truncated or lost: the output lines joined by single spaces are the
\* text again, and a word wider than maxWidth is a line of its own
NoWordLost ==
  (wOut # None /\ SingleSpaced(wIn.text)) =>
    /\ join(wOut.lines, SP) = wIn.text
    /\ \A i \in 1..Len(wOut.lines) :
         LET ws == split(wOut.lines[i], SP)
         IN  \A k \in 1..Len(ws) :
               adjustedWidth(ws[k], wOut.cw, wOut.letterSpacing) > wIn.maxWidth
                 => wOut.lines[i] = ws[k]

\* three single-spaced words wrapped into at least two lines, one of them an
\* overflowing word
NoWordLostWitness ==
  /\ wOut # None
  /\ SingleSpaced(wIn.text)
  /\ Len(split(wIn.text, SP)) = 3
  /\ Len(wOut.lines) >= 2
  /\ \E i \in 1..Len(wOut.lines) :
       adjustedWidth(wOut.lines[i], wOut.cw, wOut.letterSpacing) > wIn.maxWidth
  /\ \E i \in 1..Len(wOut.lines) : HasSpace(wOut.lines[i])

\* ------------------------------------------------------------------------
\* Properties of the renderers (checked under Spec)
\* ------------------------------------------------------------------------

\* the PDF call drew a page (the fonts were loaded)
PdfDrawn == out # None /\ out.op = "pdf" /\ out.font # "none"

StylesResolved == out # None /\ out.op = "styles"

NonBlank(p) == \E i \in 1..Len(p) : ~IsWhite(p[i])

\* the newline-delimited paragraphs of a text that hold a visible character
ParagraphsOfText(text) == SelectSeq(split(text, NL), NonBlank)

\* the non-empty words of a line
WordsOf(line) == SelectSeq(split(line, SP), LAMBDA w : w # <<>>)

WordsOfAll(lines) == flatten([i \in 1..Len(lines) |-> WordsOf(lines[i])])

\* the numbers of words in the first k lines, for every k >= i - 1, given
\* that the lines before line i hold n words
RECURSIVE WordBreaksFrom(_, _, _)
WordBreaksFrom(lines, i, n) ==
  IF i > Len(lines) THEN {n}
  ELSE {n} \cup WordBreaksFrom(lines, i + 1, n + Len(WordsOf(lines[i])))

WordBreaks(lines) == WordBreaksFrom(lines, 1, 0)

\* C2 (as claimed): with the font whose advances are the widths the markup
\* wrapper uses, the title lines and the flattened body lines of
\* getLayoutStyles equal, string for string, the title lines and
\* allWrappedLines of the PDF renderer
CrossRendererEquality ==
  (PdfDrawn /\ out.font = "mono") =>
    /\ out.res.titleLines = getLayoutStyles(slide).titleLines
    /\ out.res.bodyLines = flatten(getLayoutStyles(slide).bodyLines)

Overlap(a, b) ==
  /\ a.x < b.x + b.width /\ b.x < a.x + a.width
  /\ a.y < b.y + b.height /\ b.y < a.y + a.height

\* area in square page units of a rectangle whose sides are whole units
AreaOf(r) == (r.width \div Px(1)) * (r.height \div Px(1))

\* C3: the rectangles of getQuadrantBounds(1..4) do not overlap pairwise and
\* cover exactly the margined interior x in [80, 1840], y in [80, 1000];
\* 1 and 2 are the top row (left, right), 3 and 4 the bottom row; the
\* quadrants a drawn quadrant page reads are two of them, side by side
QuadrantPartition ==
  LET Q == [q \in 1..4 |-> getQuadrantBounds(q)]
  IN  /\ \A q \in 1..4 :
           /\ Q[q].width > 0 /\ Q[q].height > 0
           /\ Px(80) <= Q[q].x /\ Q[q].x + Q[q].width <= Px(1840)
           /\ Px(80) <= Q[q].y /\ Q[q].y + Q[q].height <= Px(1000)
      /\ \A q, r \in 1..4 : q # r => ~Overlap(Q[q], Q[r])
      /\ \A q \in 1..4 : Q[q].width % Px(1) = 0 /\ Q[q].height % Px(1) = 0
      /\ AreaOf(Q[1]) + AreaOf(Q[2]) + AreaOf(Q[3]) + AreaOf(Q[4])
           = (1840 - 80) * (1000 - 80)
      /\ Q[1].y = Q[2].y /\ Q[3].y = Q[4].y /\ Q[3].y < Q[1].y
      /\ Q[1].x < Q[2].x /\ Q[3].x < Q[4].x
      /\ (PdfDrawn /\ "titleQuadrant" \in DOMAIN out.res) =>
           /\ ~Overlap(out.res.titleQuadrant, out.res.bodyQuadrant)
           /\ out.res.titleQuadrant.y = out.res.bodyQuadrant.y
           /\ out.res.titleQuadrant.x + out.res.titleQuadrant.width
                = out.res.bodyQuadrant.x

\* a page drawn by the bottom-row quadrant layout
QuadrantPartitionWitness ==
  /\ PdfDrawn
  /\ out.res.layoutFn = "quadrant"
  /\ out.res.titleQuadrant = getQuadrantBounds(3)
  /\ out.res.bodyQuadrant = getQuadrantBounds(4)

\* the wrapped lines keep every word and break at every paragraph end
SeparatesParagraphs(lines, text) ==
  LET paras == ParagraphsOfText(text)
  IN  /\ \A i \in 1..Len(lines) : \A j \in 1..Len(lines[i]) : lines[i][j] # NL
      /\ WordsOfAll(lines) = WordsOfAll(paras)
      /\ WordBreaks(paras) \subseteq WordBreaks(lines)

\* C4: no wrapped body line holds words of two newline-delimited paragraphs:
\* every line break of the body text is a break between wrapped lines, in the
\* line groups of the markup resolver and in allWrappedLines of the PDF
\* renderer, for either body width
ParagraphSeparation ==
  /\ StylesResolved =>
       /\ Len(out.res.bodyLines) = Len(ParagraphsOfText(slide.bodyText))
       /\ SeparatesParagraphs(flatten(out.res.bodyLines), slide.bodyText)
  /\ PdfDrawn => SeparatesParagraphs(out.res.bodyLines, slide.bodyText)

\* a first paragraph that under-fills its line, followed by a second one
ParagraphSeparationWitness ==
  /\ PdfDrawn
  /\ slide.layout = "title"
  /\ slide.bodyText = Rep("a", 35) \o <<SP>> \o Rep("a", 35) \o <<NL>>
                        \o Rep("a", 35) \o <<SP>> \o Rep("a", 35)
  /\ Len(out.res.bodyLines) = 2

\* C5: for layout 'quadrant-1-2-large' and a body of N paragraphs that are
\* not blank, the export markup holds exactly N list items (one bullet
\* marker each) and the read-only preview exactly N bullet images, whatever
\* the number of wrapped lines per paragraph
BulletCount ==
  (out # None /\ slide.layout = "quadrant-1-2-large") =>
    LET N == Len(ParagraphsOfText(slide.bodyText))
    IN  /\ out.op = "html" =>
             out.res.bodyTag = "ul" /\ Len(out.res.listItems) = N
        /\ out.op = "preview" => out.res.bulletImages = N

\* two paragraphs, each wrapped into two lines, in the preview
BulletCountWitness ==
  /\ out # None /\ out.op = "preview"
  /\ slide.layout = "quadrant-1-2-large"
  /\ Len(ParagraphsOfText(slide.bodyText)) = 2
  /\ Len(flatten(out.res.bodyGroups)) = 4
  /\ out.res.bulletImages = 2

\* the values of the layout field the resolver has a branch for
KnownLayouts ==
  {"title", "quadrant-1-2", "quadrant-1-2-top", "centered", "quadrant-1-2-large"}

\* C6: for every value of the layout field both dispatchers return a layout
\* result, and for a value outside the known set the result is the one of
\* the TitleDefault layout for the same content
DispatchTotal ==
  /\ StylesResolved =>
       /\ "titleLines" \in DOMAIN out.res
       /\ slide.layout \notin KnownLayouts => out.res = getDefaultLayoutStyles(slide)
  /\ PdfDrawn =>
       /\ "titleLines" \in DOMAIN out.res
       /\ slide.layout \notin KnownLayouts =>
            out.res = generateDefaultLayout(slide, out.font)

\* the resolver called with a layout value it has no branch for, on a title
\* that wraps
DispatchTotalWitness ==
  /\ StylesResolved
  /\ slide.layout = "avdelare"
  /\ Len(out.res.titleLines) = 2

WhiteOnly(text) == \A i \in 1..Len(text) : IsWhite(text[i])

SpacesOnly(text) == \A i \in 1..Len(text) : text[i] = SP

\* C7 (as claimed): an empty or whitespace-only title gives no title line
\* and an empty or blank-lines-only body gives no body line
EmptyInputWhitespace ==
  (StylesResolved \/ PdfDrawn) =>
    /\ WhiteOnly(slide.title) => out.res.titleLines = <<>>
    /\ WhiteOnly(slide.bodyText) => flatten(out.res.bodyLines) = <<>>

\* C7 (amended): an empty title or a title of spaces only gives no title
\* line, and an empty or blank-lines-only body gives no body line, in every
\* layout of both renderers
EmptyInput ==
  (StylesResolved \/ PdfDrawn) =>
    /\ SpacesOnly(slide.title) => out.res.titleLines = <<>>
    /\ WhiteOnly(slide.bodyText) =>
         /\ out.res.bodyLines = <<>>
         /\ flatten(out.res.bodyLines) = <<>>

\* a title of one space and a body of two blank lines
EmptyInputWitness ==
  /\ PdfDrawn
  /\ slide.title = <<SP>>
  /\ slide.bodyText = <<SP, NL, SP>>
  /\ out.res.titleLines = <<>>
  /\ out.res.bodyLines = <<>>

\* C10: in every layout and for every content the header is drawn as one run
\* at x = 80, y = 1000 of the PDF page, and the markup places it at left 80,
\* top 80
HeaderAnchor ==
  /\ PdfDrawn =>
       /\ out.res.header.x = Px(80) /\ out.res.header.y = Px(1000)
       /\ out.res.header.text = slide.header
  /\ StylesResolved =>
       out.res.header.left = Px(80) /\ out.res.header.top = Px(80)
  /\ (out # None /\ out.op \in {"html", "preview"}) =>
       out.res.headerStyle.left = Px(80) /\ out.res.headerStyle.top = Px(80)

\* a page with a non-empty header drawn by the centred layout
HeaderAnchorWitness ==
  /\ PdfDrawn
  /\ out.res.layoutFn = "centered"
  /\ slide.header # <<>>
  /\ slide.title # <<>>

\* ------------------------------------------------------------------------
\* Anchors and flow of the layouts (checked under Spec)
\* ------------------------------------------------------------------------

QuadrantPdf == PdfDrawn /\ out.res.layoutFn \in {"quadrant", "quadrant-top"}

QuadrantStyles ==
  StylesResolved /\ slide.layout \in {"quadrant-1-2", "quadrant-1-2-top"}

\* the quadrant the title of a quadrant layout belongs to
TitleQuadrantOf(layout) ==
  getQuadrantBounds(IF layout = "quadrant-1-2-top" THEN 1 ELSE 3)

Dist(a, b) == IF a >= b THEN a - b ELSE b - a

\* C14: in the two quadrant layouts the last title line sits on the bottom
\* edge of the title's quadrant and the line k places before it k * 125
\* above, whatever the number of lines; the markup resolver anchors the
\* bottom of the title block at that same height (to within one line)
QuadrantTitleAnchor ==
  /\ QuadrantPdf =>
       LET t == Len(out.res.titleLines)
       IN  \A i \in 1..t :
             out.res.titleLineY[i] = out.res.titleQuadrant.y + (t - i) * Px(125)
  /\ QuadrantStyles =>
       Dist(out.res.title.bottom, TitleQuadrantOf(slide.layout).y) < Px(125)

\* C15: in the two quadrant layouts every title line is placed inside the
\* vertical range of the title's quadrant, however many lines the title has
QuadrantContainment ==
  QuadrantPdf =>
    \A i \in 1..Len(out.res.titleLines) :
      /\ out.res.titleQuadrant.y <= out.res.titleLineY[i]
      /\ out.res.titleLineY[i]
           <= out.res.titleQuadrant.y + out.res.titleQuadrant.height

\* the height of title, gap and body of the centred layout
TotalHeight(t, b) == t * Px(125) + Px(80) + b * Px(27)

\* C16: in the centred layout, for t title lines and b body lines,
\* titleBottom = 540 + totalHeight / 2 - 125 * t and bodyTop = titleBottom - 80
\* with totalHeight = 125 * t + 80 + 27 * b, in the PDF renderer and in the
\* markup resolver (whose body top is measured from the top of the page)
CenteredBalance ==
  /\ (PdfDrawn /\ out.res.layoutFn = "centered") =>
       LET t == Len(out.res.titleLines)
           b == Len(out.res.bodyLines)
       IN  /\ t >= 1 =>
                 2 * (out.res.titleLineY[t] + t * Px(125) - Px(540))
                   = TotalHeight(t, b)
           /\ (t >= 1 /\ b >= 1) =>
                 out.res.bodyLineY[1] = out.res.titleLineY[t] - Px(80)
  /\ (StylesResolved /\ slide.layout = "centered") =>
       LET t == Len(out.res.titleLines)
           b == Len(flatten(out.res.bodyLines))
       IN  /\ 2 * (out.res.title.bottom + t * Px(125) - Px(540))
                 = TotalHeight(t, b)
           /\ Px(1080) - out.res.body.top = out.res.title.bottom - Px(80)

\* C17: in the default layout of the PDF renderer the last body line is drawn
\* at y = 80 and the line k places before it at y = 80 + 27 * k, while title
\* line i (from 0) is drawn at the top anchor 760 minus 125 * i
DefaultBodyFlow ==
  (PdfDrawn /\ out.res.layoutFn = "default") =>
    LET m == Len(out.res.bodyLines)
    IN  /\ \A i \in 1..m : out.res.bodyLineY[i] = Px(80) + (m - i) * Px(27)
        /\ \A i \in 1..Len(out.res.titleLines) :
             out.res.titleLineY[i] = Px(1080 - 320) - (i - 1) * Px(125)
        /\ \A i \in 1..m : Len(out.res.bodyGlyphs[i]) = Len(out.res.bodyLines[i])

\* a default page with a title of several lines and a body of several lines
DefaultBodyFlowWitness ==
  /\ PdfDrawn
  /\ out.res.layoutFn = "default"
  /\ Len(out.res.titleLines) >= 2
  /\ Len(out.res.bodyLines) >= 3
  /\ out.res.bodyLineY[1] > out.res.bodyLineY[Len(out.res.bodyLines)]

OnGrid(v) == v % Px(GRID_SIZE) = 0

\* C18: every primary anchor (header x, y; title y or bottom; body x, y or
\* bottom) is a multiple of 40 in every layout, the title x is a multiple of
\* 40 less 8, and snapToGrid gives the nearest multiple of 40 and is
\* idempotent
GridAlignment ==
  /\ \A v \in 0..(3 * GRID_SIZE) :
       /\ OnGrid(snapToGrid(Px(v)))
       /\ Dist(snapToGrid(Px(v)), Px(v)) <= Px(GRID_SIZE) \div 2
       /\ snapToGrid(snapToGrid(Px(v))) = snapToGrid(Px(v))
  /\ PdfDrawn =>
       LET t == Len(out.res.titleLines)
           n == Len(out.res.bodyLines)
       IN  /\ OnGrid(out.res.header.x) /\ OnGrid(out.res.header.y)
           /\ t >= 1 =>
                 /\ OnGrid(out.res.titleLineY[IF out.res.layoutFn = "default"
                                                THEN 1 ELSE t])
                 /\ out.res.layoutFn # "centered" =>
                       OnGrid(out.res.titleLineX[1] + Px(8))
           /\ n >= 1 =>
                 /\ OnGrid(out.res.bodyLineY[IF out.res.layoutFn = "centered"
                                               THEN 1 ELSE n])
                 /\ out.res.layoutFn # "centered" => OnGrid(out.res.bodyLineX[1])
  /\ StylesResolved =>
       /\ OnGrid(out.res.header.top) /\ OnGrid(out.res.header.left)
       /\ \A k \in DOMAIN out.res.title \cap {"top", "bottom"} :
            OnGrid(out.res.title[k])
       /\ \A k \in DOMAIN out.res.body \cap {"top", "bottom"} :
            OnGrid(out.res.body[k])
       /\ slide.layout # "centered" =>
            OnGrid(out.res.title.left + Px(8)) /\ OnGrid(out.res.body.left)

\* the glyphs of one drawn line: the first at startX, each next one further
\* by the width of the one before plus the letter spacing, and the extent
\* from startX to the end of the last glyph is the adjusted width
LinePlaced(line, glyphs, startX, cw, letterSpacing) ==
  /\ Len(glyphs) = Len(line)
  /\ \A j \in 1..Len(line) : glyphs[j].char = line[j]
  /\ line # <<>> => glyphs[1].x = startX
  /\ \A j \in 1..(Len(line) - 1) :
       glyphs[j + 1].x - glyphs[j].x = cw[line[j]] + letterSpacing
  /\ line # <<>> =>
       glyphs[Len(line)].x + cw[line[Len(line)]] - startX
         = adjustedWidth(line, cw, letterSpacing)

\* C19: every drawn line has glyph i at startX plus the sum over j < i of
\* width(char j) + letterSpacing, so its drawn extent is sum(charWidth) +
\* (len - 1) * letterSpacing, the quantity the wrapper compared with maxWidth
GlyphPlacement ==
  PdfDrawn =>
    /\ \A i \in 1..Len(out.res.titleLines) :
         LinePlaced(out.res.titleLines[i], out.res.titleGlyphs[i],
                    out.res.titleLineX[i], glyphAdvance(out.font, 125), -500)
    /\ \A i \in 1..Len(out.res.bodyLines) :
         LinePlaced(out.res.bodyLines[i], out.res.bodyGlyphs[i],
                    out.res.bodyLineX[i], glyphAdvance(out.font, 22), -66)

\* a centred page in the proportional font with a title line of two words
\* and a body line
GlyphPlacementWitness ==
  /\ PdfDrawn
  /\ out.font = "prop"
  /\ out.res.layoutFn = "centered"
  /\ \E i \in 1..Len(out.res.titleLines) : HasSpace(out.res.titleLines[i])
  /\ Len(out.res.bodyLines) >= 1
  /\ Len(out.res.bodyGlyphs[1]) >= 2

\* ------------------------------------------------------------------------
\* Properties of the deck operations (checked under SpecDeck)
\* ------------------------------------------------------------------------

\* a font fetch came back with an error status or rejected, or reading or
\* embedding a font threw
FontFailure ==
  \/ \E f \in FontFiles : pdf.responses[f] \in {"notOk", "rejected"}
  \/ pdf.failed # "none"

\* C11: when one of the three font fetches is not ok or rejects, or reading
\* or embedding a font fails, generatePdf / generateMultiPagePdf never gets
\* past the font block: no page is laid out, measured or drawn, no PDF bytes
\* are returned, and the call ends rejected
FontFailureRejects ==
  (pdf # None /\ FontFailure) =>
    /\ pdf.pages = <<>>
    /\ pdf.next = 1
    /\ pdf.result # "bytes"
    /\ pdf.pc \in {"fetch", "check", "done"}
    /\ pdf.pc = "done" => pdf.result = "rejected"

\* a multi-page run over a deck with slides, rejected by the status check
FontFailureRejectsWitness ==
  /\ pdf # None
  /\ pdf.fn = "generateMultiPagePdf"
  /\ Len(deck) >= 1
  /\ pdf.failed = "status"
  /\ pdf.result = "rejected"

\* C12: in every run of generatePdf / generateMultiPagePdf each page is laid
\* out (measured and drawn) only after all three fonts were fetched with an
\* ok response and embedded
FontsBeforeLayout ==
  pdf # None =>
    /\ \A i \in 1..Len(pdf.pages) : pdf.pages[i].fontsEmbedded = 3
    /\ (pdf.pages # <<>> \/ pdf.pc = "layout" \/ pdf.result = "bytes") =>
         /\ pdf.embedded = 3
         /\ \A f \in FontFiles : pdf.responses[f] = "ok"

\* a multi-page run that has drawn two pages
FontsBeforeLayoutWitness ==
  /\ pdf # None
  /\ pdf.fn = "generateMultiPagePdf"
  /\ Len(pdf.pages) = 2
  /\ pdf.result = "bytes"

\* C13: the PDF of the export route holds no line break computed by the
\* wrapper with constant estimated character widths: the title and each body
\* paragraph reach the browser as one block each
ExportBreaksNotApproximate ==
  (out # None /\ out.op = "export" /\ out.status = 200) =>
    \A i \in 1..Len(out.pages) :
      /\ Len(out.pages[i].titleBlocks) <= 1
      /\ \A p \in 1..Len(out.pages[i].bodyBlocks) :
           Len(out.pages[i].bodyBlocks[p]) <= 1

Entities ==
  {<<"&", "a", "m", "p", ";">>, <<"&", "l", "t", ";">>, <<"&", "g", "t", ";">>,
   <<"&", "q", "u", "o", "t", ";">>, <<"&", "#", "0", "3", "9", ";">>}

EntityAt(s, i) ==
  \E e \in Entities :
    i + Len(e) - 1 <= Len(s) /\ SubSeq(s, i, i + Len(e) - 1) = e

\* no markup character in s but the "&" that opens an entity
MarkupSafe(s) ==
  \A i \in 1..Len(s) :
    /\ s[i] \notin {"<", ">", "\"", "'"}
    /\ s[i] = "&" => EntityAt(s, i)

\* the text a browser reads out of s
RECURSIVE decodeFrom(_, _)
decodeFrom(s, i) ==
  IF i > Len(s) THEN <<>>
  ELSE IF s[i] # "&" \/ ~EntityAt(s, i) THEN <<s[i]>> \o decodeFrom(s, i + 1)
  ELSE LET e == CHOOSE e \in Entities :
                  i + Len(e) - 1 <= Len(s) /\ SubSeq(s, i, i + Len(e) - 1) = e
           c == CASE e[2] = "a" -> "&" [] e[2] = "l" -> "<" [] e[2] = "g" -> ">"
                  [] e[2] = "q" -> "\"" [] OTHER -> "'"
       IN  <<c>> \o decodeFrom(s, i + Len(e))

\* the emitted text is safe and reads back as the user's text
EscapedAs(emitted, text) == MarkupSafe(emitted) /\ decodeFrom(emitted, 1) = text

\* the texts of one emitted slide against the slide they come from
SlideEscaped(page, s) ==
  LET styles == getLayoutStyles(s)
      paragraphs == ParagraphsOfText(s.bodyText)
  IN  /\ EscapedAs(page.header, s.header)
      /\ Len(page.titleDivs) = Len(styles.titleLines)
      /\ \A i \in 1..Len(page.titleDivs) :
           EscapedAs(page.titleDivs[i], styles.titleLines[i])
      /\ page.bodyTag = "ul" =>
           /\ Len(page.listItems) = Len(paragraphs)
           /\ \A i \in 1..Len(page.listItems) :
                EscapedAs(page.listItems[i], paragraphs[i])
      /\ page.bodyTag = "div" =>
           /\ Len(page.bodyDivs) = Len(styles.bodyLines)
           /\ \A p \in 1..Len(page.bodyDivs) :
                /\ Len(page.bodyDivs[p]) = Len(styles.bodyLines[p])
                /\ \A i \in 1..Len(page.bodyDivs[p]) :
                     EscapedAs(page.bodyDivs[p][i], styles.bodyLines[p][i])

\* C20: in the markup of generateSlideHtml and of generateMultiSlideHtml the
\* header, every title line and every body line or bullet item is escaped:
\* none of & < > " ' of the user's text appears unescaped, in every layout
Escaping ==
  /\ (out # None /\ out.op = "html") => SlideEscaped(out.res, deck[out.index])
  /\ (out # None /\ out.op = "multihtml") =>
       /\ Len(out.res) = Len(deck)
       /\ \A i \in 1..Len(deck) : SlideEscaped(out.res[i], deck[i])

\* the markup of a deck of two slides, one of them bulleted, with markup
\* characters in header, title and body
EscapingWitness ==
  /\ out # None /\ out.op = "multihtml"
  /\ Len(deck) = 2
  /\ out.res[1].bodyTag = "ul" /\ out.res[2].bodyTag = "div"
  /\ \A i \in 1..2 :
       /\ "&" \in {deck[i].header[k] : k \in 1..Len(deck[i].header)}
       /\ "<" \in {deck[i].title[k] : k \in 1..Len(deck[i].title)}
       /\ ">" \in {deck[i].bodyText[k] : k \in 1..Len(deck[i].bodyText)}

\* ---------------------------------------------------------------------
\* The editor page (Home): the slide list, the selection and the slide
\* being edited.  Slides are opaque to the editor, so a slide is a token;
\* indexes count from 0 as in the code.

\* the longest slide list the add button is followed to
MaxSlides == 3

\* the number of events (clicks, drops, edits, dialogs) a behaviour follows
MaxEvents == 4

\* an array entry that is missing
Undefined == "undefined"

\* the module-level initialState and the slide handleAddSlide creates
InitialSlide == "initialState"

EmptySlide == "empty"

\* what typing or a layout click turns the edited slide into
EditedSlides == {"x", "y"}

\* arr[i] of an array, undefined beyond its end
at(arr, i) == IF i >= 0 /\ i < Len(arr) THEN arr[i + 1] ELSE Undefined

\* arr[i] = v on a copy: an index beyond the end leaves missing entries
writeAt(arr, i, v) ==
  IF i < Len(arr) THEN [arr EXCEPT ![i + 1] = v]
  ELSE arr \o [k \in 1..(i - Len(arr)) |-> Undefined] \o <<v>>

\* the array after splice(i, 1)
removeAt(arr, i) ==
  [k \in 1..(Len(arr) - 1) |-> IF k <= i THEN arr[k] ELSE arr[k + 1]]

\* the array after splice(i, 0, v)
insertAt(arr, i, v) ==
  [k \in 1..(Len(arr) + 1) |->
     IF k <= i THEN arr[k] ELSE IF k = i + 1 THEN v ELSE arr[k - 1]]

\* a || b
orElse(a, b) == IF a # Undefined THEN a ELSE b

\* the deck files a user can import: any object with an array slides;
\* selectedSlideIndex is whatever the file says
FileSlides == SeqsUpTo({"g", "h"}, 2)

Files == [slides : FileSlides, selectedSlideIndex : 0..2]

\* the slides a successful generate request returns: a non-empty array
GeneratedSlides == {<<"g">>, <<"g", "h">>}

\* the state after a handler: its setState calls are batched into one render,
\* whose effects are pending according to their dependency arrays
rendered(e, slides, sel, state, changing, slidesSet, op) ==
  [e EXCEPT !.slides = slides, !.selectedSlideIndex = sel, !.state = state,
            !.isChangingSlide = changing,
            !.pendA = slidesSet \/ sel # e.selectedSlideIndex,
            !.pendB = state # e.state \/ sel # e.selectedSlideIndex,
            !.events = @ + 1,
            !.last = op]

\* the page after mount, with its first effects done
InitEditor ==
  /\ ed = [slides |-> <<InitialSlide>>, selectedSlideIndex |-> 0,
           state |-> InitialSlide, isChangingSlide |-> FALSE,
           pendA |-> FALSE, pendB |-> FALSE,
           stored |-> None, currentDeckId |-> FALSE,
           events |-> 0, last |-> [op |-> "mount"]]
  /\ slide = None /\ out = None /\ wIn = None /\ wOut = None
  /\ deck = None /\ pdf = None /\ req = None

\* no effect is pending: the page waits for an event
Idle == ~ed.pendA /\ ~ed.pendB

\* the page takes the next event
Ready == Idle /\ ed.events < MaxEvents

\* the slide list renders every entry of slides; an entry that is missing
\* cannot be rendered
ListShown ==
  /\ Len(ed.slides) > 0
  /\ \A k \in 1..Len(ed.slides) : ed.slides[k] # Undefined

\* the effects of one render, in their order of declaration.  Effect A
\* (deps selectedSlideIndex, slides) resets isChangingSlide or copies the
\* selected slide into state; effect B (deps state, selectedSlideIndex)
\* writes state into the selected position unless isChangingSlide is set.
\* Both read the values of the render they belong to.
RunEffects ==
  /\ ed.pendA \/ ed.pendB
  /\ LET skipA == ed.pendA /\ ed.isChangingSlide
         changing == IF skipA THEN FALSE ELSE ed.isChangingSlide
         selected == at(ed.slides, ed.selectedSlideIndex)
         state == IF ed.pendA /\ ~skipA /\ selected # Undefined
                    THEN selected ELSE ed.state
         writeB == ed.pendB /\ ~changing
         slides == IF writeB
                     THEN writeAt(ed.slides, ed.selectedSlideIndex, ed.state)
                     ELSE ed.slides
     IN  ed' = [ed EXCEPT !.slides = slides, !.state = state,
                          !.isChangingSlide = changing,
                          !.pendA = writeB, !.pendB = state # ed.state]
  /\ UNCHANGED <<slide, out, wIn, wOut, deck, pdf, req>>

\* handleTitleChange and the other edits of the selected slide
EditSlide ==
  /\ Ready
  /\ \E v \in EditedSlides \ {ed.state} :
       ed' = rendered(ed, ed.slides, ed.selectedSlideIndex, v,
                      ed.isChangingSlide, FALSE, [op |-> "edit"])
  /\ UNCHANGED <<slide, out, wIn, wOut, deck, pdf, req>>

\* handleCreateFromScratch
HandleCreateFromScratch ==
  /\ Ready
  /\ ed' = [rendered(ed, <<InitialSlide>>, 0, InitialSlide, ed.isChangingSlide,
                     TRUE, [op |-> "create"])
              EXCEPT !.currentDeckId = FALSE]
  /\ UNCHANGED <<slide, out, wIn, wOut, deck, pdf, req>>

\* handleGenerateSlides after a response with a non-empty slides array
HandleGenerateSlides ==
  /\ Ready
  /\ \E data \in GeneratedSlides :
       ed' = [rendered(ed, data, 0, orElse(at(data, 0), InitialSlide),
                       ed.isChangingSlide, TRUE, [op |-> "generate"])
                EXCEPT !.currentDeckId = FALSE]
  /\ UNCHANGED <<slide, out, wIn, wOut, deck, pdf, req>>

\* handleNameDeck, and the save of the logo click: the deck is stored with
\* the slides and the selection
HandleNameDeck ==
  /\ Ready
  /\ ed' = [ed EXCEPT !.stored = [slides |-> ed.slides,
                                  selectedSlideIndex |-> ed.selectedSlideIndex],
                      !.currentDeckId = TRUE, !.events = @ + 1,
                      !.last = [op |-> "name"]]
  /\ UNCHANGED <<slide, out, wIn, wOut, deck, pdf, req>>

\* the auto-save timer: updateDeck replaces the slides of the stored deck
AutoSave ==
  /\ Idle
  /\ ed.currentDeckId /\ ed.stored # None
  /\ ed.stored.slides # ed.slides
  /\ ed' = [ed EXCEPT !.stored = [slides |-> ed.slides,
                                  selectedSlideIndex |->
                                    ed.stored.selectedSlideIndex]]
  /\ UNCHANGED <<slide, out, wIn, wOut, deck, pdf, req>>

\* the three setters of handleLoadDeck and handleImportDeck
opened(e, d, op) ==
  [rendered(e, d.slides, d.selectedSlideIndex,
            orElse(at(d.slides, d.selectedSlideIndex), InitialSlide),
            e.isChangingSlide, TRUE, op)
     EXCEPT !.currentDeckId = TRUE]

\* handleLoadDeck
HandleLoadDeck ==
  /\ Ready
  /\ ed.stored # None
  /\ ed' = opened(ed, ed.stored, [op |-> "load"])
  /\ UNCHANGED <<slide, out, wIn, wOut, deck, pdf, req>>

\* handleImportDeck with a file importDeckFromJSON accepts
HandleImportDeck ==
  /\ Ready
  /\ \E file \in Files :
       ed' = [opened(ed, file, [op |-> "import", file |-> file])
                EXCEPT !.stored = file]
  /\ UNCHANGED <<slide, out, wIn, wOut, deck, pdf, req>>

\* the position handleSlideClick saves into, taken as the clicked one
savedPositionClicked(selectedSlideIndex, index) == index

\* the position handleSlideClick saves the edited state into
savedPosition(selectedSlideIndex, index) == selectedSlideIndex

\* what a handler remembers of the render it ran in
before(e, op) ==
  op @@ [slides |-> e.slides, selectedSlideIndex |-> e.selectedSlideIndex,
         state |-> e.state]

\* handleSlideClick(index) on an entry of the list
HandleSlideClick ==
  /\ Ready /\ ListShown
  /\ \E index \in 0..(Len(ed.slides) - 1) :
       /\ index # ed.selectedSlideIndex
       /\ LET newSlide == at(ed.slides, index)
          IN  ed' = rendered(ed,
                      writeAt(ed.slides,
                              savedPosition(ed.selectedSlideIndex, index),
                              ed.state),
                      index,
                      IF newSlide # Undefined THEN newSlide ELSE ed.state,
                      TRUE, TRUE,
                      before(ed, [op |-> "click", index |-> index]))
  /\ UNCHANGED <<slide, out, wIn, wOut, deck, pdf, req>>

\* handleAddSlide
HandleAddSlide ==
  /\ Ready /\ ListShown
  /\ Len(ed.slides) < MaxSlides
  /\ ed' = rendered(ed,
             Append(writeAt(ed.slides, ed.selectedSlideIndex, ed.state),
                    EmptySlide),
             Len(ed.slides), EmptySlide, TRUE, TRUE, [op |-> "add"])
  /\ UNCHANGED <<slide, out, wIn, wOut, deck, pdf, req>>

\* the selection left where it was
selectionUnmoved(selectedSlideIndex, fromIndex, toIndex) == selectedSlideIndex

\* the selection handleReorderSlides sets
selectionAfterMove(selectedSlideIndex, fromIndex, toIndex) ==
  IF selectedSlideIndex = fromIndex THEN toIndex
  ELSE IF selectedSlideIndex > fromIndex /\ selectedSlideIndex <= toIndex
    THEN selectedSlideIndex - 1
  ELSE IF selectedSlideIndex < fromIndex /\ selectedSlideIndex >= toIndex
    THEN selectedSlideIndex + 1
  ELSE selectedSlideIndex

\* handleDrop calls handleReorderSlides(fromIndex, toIndex) on two different
\* entries of the list
HandleReorderSlides ==
  /\ Ready /\ ListShown
  /\ \E fromIndex, toIndex \in 0..(Len(ed.slides) - 1) :
       /\ fromIndex # toIndex
       /\ LET updated == writeAt(ed.slides, ed.selectedSlideIndex, ed.state)
              movedSlide == at(updated, fromIndex)
          IN  ed' = rendered(ed,
                      insertAt(removeAt(updated, fromIndex), toIndex, movedSlide),
                      selectionAfterMove(ed.selectedSlideIndex, fromIndex,
                                         toIndex),
                      ed.state, ed.isChangingSlide, TRUE,
                      before(ed, [op |-> "reorder", fromIndex |-> fromIndex,
                                  toIndex |-> toIndex]))
  /\ UNCHANGED <<slide, out, wIn, wOut, deck, pdf, req>>

\* handleDeleteDeck: deleting the current deck resets the editor
HandleDeleteDeck ==
  /\ Ready
  /\ ed.stored # None
  /\ ed' = IF ed.currentDeckId
             THEN [rendered(ed, <<InitialSlide>>, 0, InitialSlide,
                            ed.isChangingSlide, TRUE, [op |-> "delete"])
                     EXCEPT !.stored = None, !.currentDeckId = FALSE]
             ELSE [ed EXCEPT !.stored = None, !.events = @ + 1,
                             !.last = [op |-> "delete"]]
  /\ UNCHANGED <<slide, out, wIn, wOut, deck, pdf, req>>

NextEditor ==
  \/ RunEffects
  \/ EditSlide
  \/ HandleCreateFromScratch
  \/ HandleGenerateSlides
  \/ HandleNameDeck
  \/ AutoSave
  \/ HandleLoadDeck
  \/ HandleImportDeck
  \/ HandleSlideClick
  \/ HandleAddSlide
  \/ HandleReorderSlides
  \/ HandleDeleteDeck

SpecEditor == InitEditor /\ [][NextEditor]_vars

\* ---------------------------------------------------------------------
\* The notes dialog of the editor and POST /api/generate-slides.

\* the most slides the generator is taken to return
MaxGenerated == 7

\* the values the two range inputs (min 3, max 32) are moved to
SliderValues == {3, 4, 5, 15, 16, 32}

\* a number of a request body
number(n) == [type |-> "number", value |-> n]

\* what a request made by hand can carry as slideAmountMin and Max
BodyValues ==
  {[type |-> "undefined"], [type |-> "string"]}
    \cup {number(n) : n \in {2, 3, 4, 32, 33}}

SlideAmountModes == {"auto", "edit"}

\* the length of modelsToTry
ModelCount == 6

\* the two versions of the route differ in the titles of the contents slide
RouteVersions == {1, 2}

\* the page after mount: the notes dialog is closed
InitGenerate ==
  /\ ed = [showNotesDialog |-> FALSE, slideAmountMode |-> "auto",
           slideAmountMin |-> 5, slideAmountMax |-> 15]
  /\ req = None /\ out = None
  /\ slide = None /\ wIn = None /\ wOut = None /\ deck = None /\ pdf = None

\* handleGenerateFromNotes opens the dialog and resets the mode and the range
HandleGenerateFromNotes ==
  /\ req = None
  /\ ed' = [showNotesDialog |-> TRUE, slideAmountMode |-> "auto",
            slideAmountMin |-> 5, slideAmountMax |-> 15]
  /\ UNCHANGED <<slide, out, wIn, wOut, deck, pdf, req>>

\* the two mode buttons
SetSlideAmountMode ==
  /\ req = None /\ ed.showNotesDialog
  /\ \E m \in SlideAmountModes \ {ed.slideAmountMode} :
       ed' = [ed EXCEPT !.slideAmountMode = m]
  /\ UNCHANGED <<slide, out, wIn, wOut, deck, pdf, req>>

\* the Min slider moved without touching Max
minChangedAlone(e, val) == [e EXCEPT !.slideAmountMin = val]

\* onChange of the Min slider
minChanged(e, val) ==
  [e EXCEPT !.slideAmountMin = val,
            !.slideAmountMax = IF val > e.slideAmountMax THEN val ELSE @]

\* onChange of the Max slider
maxChanged(e, val) ==
  [e EXCEPT !.slideAmountMax = val,
            !.slideAmountMin = IF val < e.slideAmountMin THEN val ELSE @]

MinSliderChange ==
  /\ req = None /\ ed.showNotesDialog /\ ed.slideAmountMode = "edit"
  /\ \E val \in SliderValues \ {ed.slideAmountMin} : ed' = minChanged(ed, val)
  /\ UNCHANGED <<slide, out, wIn, wOut, deck, pdf, req>>

MaxSliderChange ==
  /\ req = None /\ ed.showNotesDialog /\ ed.slideAmountMode = "edit"
  /\ \E val \in SliderValues \ {ed.slideAmountMax} : ed' = maxChanged(ed, val)
  /\ UNCHANGED <<slide, out, wIn, wOut, deck, pdf, req>>

\* typeof v === 'number'
isNumber(v) == v.type = "number"

\* the slide count instruction of the prompt
slideCountInstruction(slideAmountMode, slideAmountMin, slideAmountMax) ==
  IF /\ slideAmountMode = "edit"
     /\ isNumber(slideAmountMin) /\ isNumber(slideAmountMax)
     /\ slideAmountMin.value >= 3 /\ slideAmountMax.value <= 32
     /\ slideAmountMin.value <= slideAmountMax.value
    THEN IF slideAmountMin.value = slideAmountMax.value
           THEN [kind |-> "exactly", min |-> slideAmountMin.value,
                 max |-> slideAmountMax.value]
           ELSE [kind |-> "between", min |-> slideAmountMin.value,
                 max |-> slideAmountMax.value]
    ELSE [kind |-> "automatic"]

\* the request as the route receives it
received(version, body, apiKey) ==
  [route |-> "generate", version |-> version, body |-> body,
   pc |-> "start", apiKey |-> apiKey, instruction |-> None,
   model |-> 0, calls |-> <<>>, lastError |-> None, message |-> None]

\* handleGenerateSlides sends the notes, the mode and, in 'edit' mode, the
\* range
SendGenerateRequest ==
  /\ req = None /\ ed.showNotesDialog
  /\ \E version \in RouteVersions, apiKey \in BOOLEAN :
       req' = received(version,
                [notes |-> "notes", slideAmountMode |-> ed.slideAmountMode,
                 slideAmountMin |-> IF ed.slideAmountMode = "edit"
                                      THEN number(ed.slideAmountMin)
                                      ELSE [type |-> "undefined"],
                 slideAmountMax |-> IF ed.slideAmountMode = "edit"
                                      THEN number(ed.slideAmountMax)
                                      ELSE [type |-> "undefined"]],
                apiKey)
  /\ UNCHANGED <<slide, out, wIn, wOut, deck, pdf, ed>>

\* a request that does not come from the dialog
PostGenerateSlides ==
  /\ req = None /\ ~ed.showNotesDialog
  /\ \E version \in RouteVersions, notes \in {"", "notes"},
        slideAmountMode \in SlideAmountModes \cup {Undefined},
        slideAmountMin \in BodyValues, slideAmountMax \in BodyValues :
       req' = received(version,
                [notes |-> notes, slideAmountMode |-> slideAmountMode,
                 slideAmountMin |-> slideAmountMin,
                 slideAmountMax |-> slideAmountMax], TRUE)
  /\ UNCHANGED <<slide, out, wIn, wOut, deck, pdf, ed>>

\* the response of the catch block
generateFailed(error, lastError) ==
  [op |-> "generate", status |-> 500, error |-> error, lastError |-> lastError]

\* the checks before the prompt is built, and the prompt
BuildPrompt ==
  /\ req # None /\ req.route = "generate" /\ req.pc = "start"
  /\ IF req.body.notes = ""
       THEN /\ out' = [op |-> "generate", status |-> 400,
                       error |-> "Notes are required", lastError |-> None]
            /\ req' = [req EXCEPT !.pc = "done"]
     ELSE IF ~req.apiKey
       THEN /\ out' = generateFailed("ANTHROPIC_API_KEY is not configured", None)
            /\ req' = [req EXCEPT !.pc = "done"]
     ELSE /\ out' = out
          /\ req' = [req EXCEPT
                       !.pc = "model", !.model = 1,
                       !.instruction =
                         slideCountInstruction(req.body.slideAmountMode,
                                               req.body.slideAmountMin,
                                               req.body.slideAmountMax)]
  /\ UNCHANGED <<slide, wIn, wOut, deck, pdf, ed>>

\* a slide of the generator: title k, one of them blank, one a divider
generated(n, blank, divider) ==
  [k \in 1..n |->
     [overline |-> "",
      title |-> IF k = blank THEN "" ELSE "t" \o ToString(k),
      bodyText |-> "b" \o ToString(k),
      layout |-> IF k = divider THEN "avdelare"
                 ELSE IF k = 2 THEN "" ELSE "title"]]

\* what the text of a model's answer parses to
Answers ==
  {[kind |-> "notJson"], [kind |-> "notArray"], [kind |-> "nullSlide"]}
    \cup {[kind |-> "array", slides |-> generated(n, blank, divider)] :
            n \in {0, 1, 5, 6, MaxGenerated}, blank \in {0, 1, 2},
            divider \in {0, 3}}

\* the loop goes on after a call whatever its outcome
afterCallNoBreak(ok, model) == IF model < ModelCount THEN "model" ELSE "parse"

\* where the loop over modelsToTry goes after a call: break on success,
\* continue on failure, the throw after the last failure
afterCall(ok, model) ==
  IF ok THEN "parse" ELSE IF model < ModelCount THEN "model" ELSE "failed"

\* message = await anthropic.messages.create({model, ...}) inside try/catch
CallModel ==
  /\ req # None /\ req.route = "generate" /\ req.pc = "model"
  /\ \E ok \in BOOLEAN :
       req' = [req EXCEPT
                 !.calls = Append(@, [model |-> req.model, ok |-> ok]),
                 !.lastError = IF ok THEN @ ELSE [of |-> req.model],
                 !.message = IF ok THEN [model |-> req.model] ELSE @,
                 !.pc = afterCall(ok, req.model),
                 !.model = IF afterCall(ok, req.model) = "model"
                             THEN @ + 1 ELSE @]
  /\ UNCHANGED <<slide, out, wIn, wOut, deck, pdf, ed>>

\* if (!message) throw new Error('All models failed. Last error: ...')
AllModelsFailed ==
  /\ req # None /\ req.route = "generate" /\ req.pc = "failed"
  /\ req' = [req EXCEPT !.pc = "done"]
  /\ out' = generateFailed("All models failed. Last error: ", req.lastError)
  /\ UNCHANGED <<slide, wIn, wOut, deck, pdf, ed>>

\* slide.title || '' and the other defaults
validated(s) ==
  [overline |-> s.overline, title |-> s.title, bodyText |-> s.bodyText,
   layout |-> IF s.layout = "" THEN "title" ELSE s.layout,
   useBullets |-> FALSE]

\* every slide gets the title of the first slide as overline
withOverline(slides) ==
  [k \in 1..Len(slides) |-> [slides[k] EXCEPT !.overline = slides[1].title]]

\* the titles of a list of slides that are not blank, in order
RECURSIVE titlesOf(_)
titlesOf(slides) ==
  IF slides = <<>> THEN <<>>
  ELSE IF Head(slides).title = "" THEN titlesOf(Tail(slides))
  ELSE <<Head(slides).title>> \o titlesOf(Tail(slides))

\* slides.filter(slide => slide.layout === 'avdelare')
RECURSIVE dividersOf(_)
dividersOf(slides) ==
  IF slides = <<>> THEN <<>>
  ELSE IF Head(slides).layout = "avdelare"
    THEN <<Head(slides)>> \o dividersOf(Tail(slides))
  ELSE dividersOf(Tail(slides))

\* the lines of the contents slide: version 2 prefers the divider titles
tocTitles(version, slides) ==
  IF version = 2 /\ titlesOf(dividersOf(Tail(slides))) # <<>>
    THEN titlesOf(dividersOf(Tail(slides)))
    ELSE titlesOf(Tail(slides))

tocSlide(version, slides) ==
  [overline |-> slides[1].title, title |-> "Innehållsförteckning",
   bodyText |-> tocTitles(version, slides), layout |-> "quadrant-1-2-large",
   useBullets |-> TRUE]

\* the contents slide put in front
withTocFirst(version, slides) ==
  IF Len(slides) > 5 THEN insertAt(slides, 0, tocSlide(version, slides))
  ELSE slides

\* validatedSlides.splice(1, 0, tocSlide) when there are more than 5 slides
withToc(version, slides) ==
  IF Len(slides) > 5 THEN insertAt(slides, 1, tocSlide(version, slides))
  ELSE slides

\* the answer of the model is parsed, validated and completed
ParseAndRespond ==
  /\ req # None /\ req.route = "generate" /\ req.pc = "parse"
  /\ \E answer \in Answers :
       /\ req' = [req EXCEPT !.pc = "done",
                             !.message = [model |-> req.message.model,
                                          answer |-> answer]]
       /\ out' =
            IF answer.kind = "notJson"
              THEN generateFailed("Failed to parse Claude response as JSON",
                                  None)
            ELSE IF answer.kind = "notArray"
                    \/ (answer.kind = "array" /\ answer.slides = <<>>)
              THEN generateFailed("Claude did not return a valid array of slides",
                                  None)
            ELSE IF answer.kind = "nullSlide"
              THEN generateFailed("Invalid slide at index", None)
            ELSE [op |-> "generate", status |-> 200,
                  slides |-> withToc(req.version,
                               withOverline([k \in 1..Len(answer.slides) |->
                                               validated(answer.slides[k])]))]
  /\ UNCHANGED <<slide, wIn, wOut, deck, pdf, ed>>

NextGenerate ==
  \/ HandleGenerateFromNotes
  \/ SetSlideAmountMode
  \/ MinSliderChange
  \/ MaxSliderChange
  \/ SendGenerateRequest
  \/ PostGenerateSlides
  \/ BuildPrompt
  \/ CallModel
  \/ AllModelsFailed
  \/ ParseAndRespond

SpecGenerate == InitGenerate /\ [][NextGenerate]_vars

\* C21: generateMultiPagePdf writes its document serially: a page is added
\* only when every earlier page is drawn, page i holds slide i, equal slides
\* give equal pages whatever their neighbours, and the saved document has one
\* page per slide
SerialAssembly ==
  (pdf # None /\ pdf.fn = "generateMultiPagePdf") =>
    /\ Len(pdf.pages) <= pdf.pageCount /\ pdf.pageCount <= Len(pdf.pages) + 1
    /\ pdf.pageCount <= Len(deck)
    /\ \A i \in 1..Len(pdf.pages) :
         /\ pdf.pages[i].page = i /\ pdf.pages[i].slide = i
         /\ pdf.pages[i].drawn.header.text = deck[i].header
    /\ \A i, j \in 1..Len(pdf.pages) :
         deck[i] = deck[j] => pdf.pages[i].drawn = pdf.pages[j].drawn
    /\ pdf.result = "bytes" =>
         pdf.pageCount = Len(deck) /\ Len(pdf.pages) = Len(deck)

\* a saved document of two different slides
SerialAssemblyWitness ==
  /\ pdf # None /\ pdf.fn = "generateMultiPagePdf"
  /\ pdf.result = "bytes"
  /\ Len(deck) = 2 /\ deck[1] # deck[2]
  /\ Len(pdf.pages) = 2

\* the slide of the run with its layout replaced by 'quadrant-1-2'
AsQuadrant == [slide EXCEPT !.layout = "quadrant-1-2"]

\* C22: for layout 'quadrant-1-2-large' the header, title and body anchors
\* and the title max width equal those of 'quadrant-1-2', in the markup
\* resolver and in the PDF renderer
LargeAnchoring ==
  slide.layout = "quadrant-1-2-large" =>
    /\ StylesResolved =>
         LET q == getQuadrantLayoutStyles(AsQuadrant)
         IN  /\ out.res.header = q.header
             /\ out.res.title = q.title
             /\ out.res.body.bottom = q.body.bottom
             /\ out.res.body.left = q.body.left
    /\ PdfDrawn =>
         LET q == generateQuadrantLayout(AsQuadrant, out.font)
             n == Len(out.res.bodyLines)
         IN  /\ out.res.header = q.header
             /\ out.res.titleLines = q.titleLines
             /\ out.res.titleLineX = q.titleLineX
             /\ out.res.titleLineY = q.titleLineY
             /\ out.res.bodyLineX = [i \in 1..n |-> getQuadrantBounds(4).x + Px(40)]
             /\ n > 0 => out.res.bodyLineY[n] = getQuadrantBounds(4).y

\* the first word of a line: the part before its first space
firstWord(line) == split(line, SP)[1]

\* no word of the text is empty: no doubled, leading or trailing space
NoEmptyWord(text) ==
  \A i \in 1..Len(split(text, SP)) : split(text, SP)[i] # <<>>

\* consecutive output lines cannot be joined within maxWidth
LinesMaximal ==
  \A i \in 1..(Len(wOut.lines) - 1) :
    adjustedWidth(wOut.lines[i] \o <<SP>> \o firstWord(wOut.lines[i + 1]),
                  wOut.cw, wOut.letterSpacing) > wIn.maxWidth

ExportAnswered == out # None /\ out.op = "export"

RankWithout(i, k) == IF i < k THEN i ELSE i - 1

\* the last handler was handleReorderSlides and its render is the current one
Reordered == ed.last.op = "reorder" /\ ed.pendA

\* C25: after handleReorderSlides(from, to) the list is the previous list,
\* with the edited state saved at the selection, with the slide of index
\* from moved to index to, and the selection is on the slide it was on
ReorderKeepsSelection ==
  Reordered =>
    LET saved == writeAt(ed.last.slides, ed.last.selectedSlideIndex,
                         ed.last.state)
        from == ed.last.fromIndex
        to == ed.last.toIndex
        old == ed.last.selectedSlideIndex
    IN  /\ Len(ed.slides) = Len(saved)
        /\ at(ed.slides, to) = at(saved, from)
        /\ removeAt(ed.slides, to) = removeAt(saved, from)
        /\ IF old = from THEN ed.selectedSlideIndex = to
           ELSE /\ ed.selectedSlideIndex # to
                /\ RankWithout(ed.selectedSlideIndex, to) = RankWithout(old, from)
        /\ at(ed.slides, ed.selectedSlideIndex) = ed.last.state
        /\ ed.state = ed.last.state

\* a move of another slide across the selected one, in a list of three
ReorderKeepsSelectionWitness ==
  /\ Reordered
  /\ Len(ed.slides) = 3
  /\ ed.last.fromIndex < ed.last.selectedSlideIndex
  /\ ed.last.selectedSlideIndex <= ed.last.toIndex
  /\ ed.last.slides[1] # ed.last.slides[2]

\* C26: in the editor 0 <= selectedSlideIndex < slides.length and no entry
\* of the slide list is missing
SelectionInBounds ==
  /\ 0 <= ed.selectedSlideIndex
  /\ ed.selectedSlideIndex < Len(ed.slides)
  /\ \A k \in 1..Len(ed.slides) : ed.slides[k] # Undefined

\* C27: after handleSlideClick(index), also once the effects have run, the
\* previously selected position holds the edited state, every other slide
\* is unchanged, the selection is index and the editing state is the
\* clicked slide
ClickLosesNoEdit ==
  ed.last.op = "click" =>
    /\ ed.selectedSlideIndex = ed.last.index
    /\ ed.state = at(ed.last.slides, ed.last.index)
    /\ at(ed.slides, ed.last.selectedSlideIndex) = ed.last.state
    /\ \A i \in 0..(Len(ed.slides) - 1) :
         i # ed.last.selectedSlideIndex =>
           at(ed.slides, i) = at(ed.last.slides, i)
    /\ \A i \in 0..(Len(ed.last.slides) - 1) : i < Len(ed.slides)

\* a click after an edit that the list did not hold yet, effects done
ClickLosesNoEditWitness ==
  /\ ed.last.op = "click" /\ Idle
  /\ Len(ed.last.slides) >= 2
  /\ ed.last.selectedSlideIndex < Len(ed.last.slides)
  /\ ed.last.state \in EditedSlides
  /\ ed.last.state # ed.state

\* the route has built its prompt
PromptBuilt == req # None /\ req.route = "generate" /\ req.instruction # None

\* C28: the sliders keep slideAmountMin <= slideAmountMax, and the route
\* applies the range exactly when the mode is 'edit' and 3 <= min <= max <= 32,
\* otherwise it uses the automatic instruction
SlideAmountRange ==
  /\ ed.slideAmountMin <= ed.slideAmountMax
  /\ ed.slideAmountMin \in 3..32 /\ ed.slideAmountMax \in 3..32
  /\ PromptBuilt =>
       LET b == req.body
           inRange == /\ b.slideAmountMode = "edit"
                      /\ b.slideAmountMin.type = "number"
                      /\ b.slideAmountMax.type = "number"
                      /\ 3 <= b.slideAmountMin.value
                      /\ b.slideAmountMin.value <= b.slideAmountMax.value
                      /\ b.slideAmountMax.value <= 32
       IN  /\ req.instruction.kind # "automatic" <=> inRange
           /\ inRange => /\ req.instruction.min = b.slideAmountMin.value
                         /\ req.instruction.max = b.slideAmountMax.value

\* the Min slider was moved above Max and the request applies the range
SlideAmountRangeWitness ==
  /\ PromptBuilt
  /\ ed.showNotesDialog /\ ed.slideAmountMode = "edit"
  /\ ed.slideAmountMin = 32 /\ ed.slideAmountMax = 32
  /\ req.instruction.kind = "exactly" /\ req.instruction.min = 32

\* the route has answered with slides
SlidesReturned == out # None /\ out.op = "generate" /\ out.status = 200

\* the slide is the table of contents
IsToc(s) == s.title = "Innehållsförteckning" /\ s.layout = "quadrant-1-2-large"

\* the returned slide carries the generator's slide
Carries(r, g) ==
  /\ r.title = g.title /\ r.bodyText = g.bodyText
  /\ r.layout = (IF g.layout = "" THEN "title" ELSE g.layout)

\* C29: for more than 5 generated slides the response is those slides in
\* their order with one table of contents of layout 'quadrant-1-2-large' at
\* index 1, for 5 or fewer it is those slides; every overline is the first
\* slide's title
TocInsertion ==
  SlidesReturned =>
    LET g == req.message.answer.slides
        r == out.slides
        n == Len(g)
    IN  /\ n > 5 => /\ Len(r) = n + 1
                    /\ IsToc(r[2])
                    /\ Carries(r[1], g[1])
                    /\ \A k \in 2..n : Carries(r[k + 1], g[k])
        /\ n <= 5 => /\ Len(r) = n
                     /\ \A k \in 1..n : Carries(r[k], g[k]) /\ ~IsToc(r[k])
        /\ \A k \in 1..Len(r) : r[k].overline = r[1].title

\* six slides with a divider, answered by the second version of the route
TocInsertionWitness ==
  /\ SlidesReturned
  /\ Len(req.message.answer.slides) = 6 /\ Len(out.slides) = 7
  /\ req.version = 2
  /\ out.slides[1].title # ""
  /\ out.slides[2].bodyText = <<"t3">>

\* every call of the list so far has failed
AllFailed == \A k \in 1..Len(req.calls) : ~req.calls[k].ok

\* C30: the route calls the models in the order of the list, stops at the
\* first success and uses that answer, and answers 500 with the last error
\* of the list exactly when all six calls have failed
ModelFallback ==
  (req # None /\ req.route = "generate") =>
    /\ Len(req.calls) <= ModelCount
    /\ \A k \in 1..Len(req.calls) :
         /\ req.calls[k].model = k
         /\ k < Len(req.calls) => ~req.calls[k].ok
    /\ req.message # None <=> (req.calls # <<>> /\ ~AllFailed)
    /\ req.message # None => req.message.model = Len(req.calls)
    /\ req.pc = "parse" => req.message # None
    /\ (out # None /\ out.status = 200) => req.message # None
    /\ (out # None /\ out.status # 200) =>
         /\ out.lastError # None <=> (Len(req.calls) = ModelCount /\ AllFailed)
         /\ out.lastError # None =>
              /\ out.status = 500
              /\ out.lastError = [of |-> ModelCount]
    /\ (req.pc = "done" /\ Len(req.calls) = ModelCount /\ AllFailed) =>
         out.lastError # None

\* two models fail, the third answers and its slides are returned
ModelFallbackWitness ==
  /\ SlidesReturned
  /\ Len(req.calls) = 3
  /\ req.message.model = 3

====
